---------------------------- MODULE Spec2Model ----------------------------
(***************************************************************************)
(* A model of the mock ADB daemon of this repository:                      *)
(*   - the packet codec              src/src/cto/protocol.py               *)
(*   - the binary transport session  src/adb_server/transport.py           *)
(*   - the service streams           src/adb_server/streams/*.py           *)
(*   - the in-memory file system     src/adb_server/filesystem.py          *)
(*   - the host text protocol        src/adb_server/host.py                *)
(*                                                                         *)
(* Every component has its own specification (SpecCodec, Spec, SpecSync,   *)
(* SpecRecv, SpecHost) over its own group of variables; the variables of   *)
(* the other components keep their initial value.                          *)
(*                                                                         *)
(* Bytes are the integers 0..255 and a bytes object is a sequence of them. *)
(* TLC's integers are 32-bit signed, so an unsigned 32-bit header field is *)
(* a pair <<hi, lo>> of 16-bit halves (value = hi * 65536 + lo).           *)
(***************************************************************************)
EXTENDS Integers, Sequences, FiniteSets, TLC

VARIABLES
    \* ---- packet codec (src/src/cto/protocol.py) ----
    codecPkt,       \* the ADBPacket given to to_bytes
    codecRaw,       \* the buffer given to from_bytes
    codecFlip,      \* index of the bit flipped in codecRaw, or -1
    codecOut,       \* result of from_bytes, or NoResult
    codecPc,        \* "new" | "encoded" | "decoded"
    \* ---- transport session (src/adb_server/transport.py) ----
    max_payload,        \* ADBTransportSession.max_payload
    streams_by_local,   \* peer's stream id -> stream object (its server id)
    streams_by_remote,  \* server's stream id -> stream object (its server id)
    next_remote_id,     \* ADBTransportSession.next_remote_id
    active,             \* ADBTransportSession.active
    streams,            \* server id -> the stream object created with it
    loop,               \* run(): "running" | "ended" | "crashed"
    loopExc,            \* the exception that ended run(), or "none"
    broken,             \* the peer is gone: sendall raises BrokenPipeError
    filesystem,                 \* device.filesystem
    log_cursor,         \* device._log_cursor
    sent,               \* the packets passed to conn.sendall, in call order,
                        \* each with the inbound packet that caused it
                        \* (cause, 0 for a producer thread) and the
                        \* send_stream_data call it belongs to (call, or 0)
    sendLog,            \* the calls of send_stream_data, in order
    inLog,              \* the inbound packets run() has dispatched, in order
    \* ---- host session (src/adb_server/host.py) ----
    alive,              \* ADBHostSession.alive
    transport_started,  \* ADBHostSession.transport_started
    forwarded_ports,    \* device.forwarded_ports, in insertion order
    hostLoop,           \* run(): "running" | "ended" | "crashed" | "transport"
    hostSent,           \* the replies passed to conn.sendall, in order
    hostLog,            \* the requests run() has read, in order
    \* ---- handshake of ADBSession (src/src/cto/adb_session.py) ----
    handshakePc,        \* ADBSession: "handshake" | "run" | "closed"
    session_max_payload, \* ADBSession._max_payload
    connected,          \* ADBSession._connected
    incoming,           \* the packets perform_handshake has read, in order
    outgoing,           \* the packets passed to transport.write_packet
    \* ---- the connection under concurrent writers ----
    wire,               \* the byte ranges the kernel accepted, in order
    writers,            \* thread -> the _send_packet call it is in
    \* ---- SyncProtocol (src/server/sync_service.py) ----
    send_fp,            \* SyncProtocol._send_fp: a file object, or NoAttr
    send_path,          \* SyncProtocol._send_path, or NoAttr
    fileObjects,        \* the file objects open() has returned, in order
    overlayFiles,       \* the files under the overlay root: path -> record
    protoLog            \* the requests given to handle(), with the replies

codecVars == <<codecPkt, codecRaw, codecFlip, codecOut, codecPc>>

sessionVars == <<max_payload, streams_by_local, streams_by_remote, next_remote_id,
                 active, streams, loop, loopExc>>

transportVars == <<sessionVars, broken, filesystem, log_cursor, sent, sendLog, inLog>>

hostVars == <<alive, transport_started, forwarded_ports, hostLoop, hostSent, hostLog>>

handshakeVars == <<handshakePc, session_max_payload, connected, incoming, outgoing>>

writerVars == <<wire, writers>>

protocolVars == <<send_fp, send_path, fileObjects, overlayFiles, protoLog>>

otherVars == <<handshakeVars, writerVars, protocolVars>>

vars == <<codecVars, transportVars, hostVars, otherVars>>

-----------------------------------------------------------------------------
(* Generic helpers                                                         *)

Min(a, b) == IF a < b THEN a ELSE b

RECURSIVE Pow2(_)
Pow2(n) == IF n = 0 THEN 1 ELSE 2 * Pow2(n - 1)

\* Bitwise exclusive or of two naturals below 2^n.
RECURSIVE XorBits(_, _, _)
XorBits(a, b, n) ==
    IF n = 0 THEN 0
    ELSE (((a % 2) + (b % 2)) % 2) + 2 * XorBits(a \div 2, b \div 2, n - 1)

\* Sequences over S of length at most n.
SeqUpTo(S, n) == UNION { [1..k -> S] : k \in 0..n }

NoResult == [ok |-> FALSE, error |-> "none"]

-----------------------------------------------------------------------------
(* Unsigned 32-bit integers as <<hi, lo>>                                  *)

HALF == 256 * 256

U32(hi, lo) == <<hi, lo>>
U32OfNat(n) == <<((n \div HALF) % HALF), (n % HALF)>>
U32Xor(a, b) == <<XorBits(a[1], b[1], 16), XorBits(a[2], b[2], 16)>>
\* (a + n) mod 2^32 for a natural n below 2^16
U32Add(a, n) == <<(a[1] + ((a[2] + n) \div HALF)) % HALF, (a[2] + n) % HALF>>
U32Max == <<HALF - 1, HALF - 1>>           \* 0xFFFFFFFF

\* struct "<I": four bytes, least significant first
PackU32(a) == <<(a[2] % 256), (a[2] \div 256), (a[1] % 256), (a[1] \div 256)>>
UnpackU32(raw, off) ==
    <<raw[off + 3] + (256 * raw[off + 4]), raw[off + 1] + (256 * raw[off + 2])>>

-----------------------------------------------------------------------------
(* Packet codec: src/src/cto/protocol.py                                   *)

A_OPEN == <<20037, 20559>>                 \* 0x4e45504f, _cmd("OPEN")
A_CNXN == <<20056, 20035>>                 \* 0x4e584e43, _cmd("CNXN")
HEADER_SIZE == 24                          \* struct.Struct("<IIIIII").size

ADBPacket(command, arg0, arg1, payload) ==
    [command |-> command, arg0 |-> arg0, arg1 |-> arg1, payload |-> payload]

\* ADBPacket.checksum: sum(data) & 0xFFFFFFFF
RECURSIVE checksumFrom(_, _, _)
checksumFrom(data, i, acc) ==
    IF i > Len(data) THEN acc ELSE checksumFrom(data, i + 1, U32Add(acc, data[i]))

checksum(data) == checksumFrom(data, 1, <<0, 0>>)

\* ADBPacket.magic: command ^ 0xFFFFFFFF
magic(command) == U32Xor(command, U32Max)

\* A plausible slip in to_bytes: arg0 and arg1 packed in the wrong order.
to_bytes_swapped(p) ==
    PackU32(p.command) \o PackU32(p.arg1) \o PackU32(p.arg0)
        \o PackU32(U32OfNat(Len(p.payload))) \o PackU32(checksum(p.payload))
        \o PackU32(magic(p.command)) \o p.payload

\* ADBPacket.to_bytes
to_bytes(p) ==
    PackU32(p.command) \o PackU32(p.arg0) \o PackU32(p.arg1)
        \o PackU32(U32OfNat(Len(p.payload))) \o PackU32(checksum(p.payload))
        \o PackU32(magic(p.command)) \o p.payload

DecodeError(cls, msg) == [ok |-> FALSE, error |-> cls, message |-> msg]

\* A plausible slip in from_bytes: the payload checksum is not verified.
from_bytes_nochecksum(raw) ==
    IF Len(raw) < HEADER_SIZE
    THEN DecodeError("ADBTruncatedError", "incomplete header")
    ELSE LET command == UnpackU32(raw, 0)
             arg0 == UnpackU32(raw, 4)
             arg1 == UnpackU32(raw, 8)
             data_length == UnpackU32(raw, 12)
             mgc == UnpackU32(raw, 20)
         IN  IF mgc # U32Xor(command, U32Max)
             THEN DecodeError("ADBMagicError", "invalid magic")
             ELSE IF U32OfNat(Len(raw)) # U32Add(data_length, HEADER_SIZE)
             THEN DecodeError("ADBTruncatedError", "payload length mismatch")
             ELSE [ok |-> TRUE,
                   packet |-> ADBPacket(command, arg0, arg1,
                                        SubSeq(raw, HEADER_SIZE + 1, Len(raw)))]

\* ADBPacket.from_bytes
from_bytes(raw) ==
    IF Len(raw) < HEADER_SIZE
    THEN DecodeError("ADBTruncatedError", "incomplete header")
    ELSE LET command == UnpackU32(raw, 0)
             arg0 == UnpackU32(raw, 4)
             arg1 == UnpackU32(raw, 8)
             data_length == UnpackU32(raw, 12)
             data_checksum == UnpackU32(raw, 16)
             mgc == UnpackU32(raw, 20)
         IN  IF mgc # U32Xor(command, U32Max)
             THEN DecodeError("ADBMagicError", "invalid magic")
             ELSE IF U32OfNat(Len(raw)) # U32Add(data_length, HEADER_SIZE)
             THEN DecodeError("ADBTruncatedError", "payload length mismatch")
             ELSE LET payload == SubSeq(raw, HEADER_SIZE + 1, Len(raw))
                  IN  IF checksum(payload) # data_checksum
                      THEN DecodeError("ADBChecksumError", "checksum mismatch")
                      ELSE [ok |-> TRUE,
                            packet |-> ADBPacket(command, arg0, arg1, payload)]

\* raw with bit i (0 = least significant bit of the first byte) inverted
FlipBit(raw, i) ==
    [raw EXCEPT ![i \div 8 + 1] = XorBits(@, Pow2(i % 8), 8)]

\* ---- inputs of the codec specification ----
MaxPayloadLen == 2
CodecBytes == {0, 127, 255}
CodecCommands == {A_OPEN, A_CNXN, <<0, 0>>, U32Max}

CodecStart ==
    /\ codecPkt \in { ADBPacket(c, a0, a1, pl) :
                        c \in CodecCommands, a0 \in {<<0, 0>>, <<0, 1>>, U32Max},
                        a1 \in {<<0, 0>>, <<32768, 2>>},
                        pl \in SeqUpTo(CodecBytes, MaxPayloadLen) }
    /\ codecRaw = <<>>
    /\ codecFlip = -1
    /\ codecOut = NoResult
    /\ codecPc = "new"

CodecIdle ==
    /\ codecPkt = ADBPacket(<<0, 0>>, <<0, 0>>, <<0, 0>>, <<>>)
    /\ codecRaw = <<>>
    /\ codecFlip = -1
    /\ codecOut = NoResult
    /\ codecPc = "idle"

\* no host session is being looked at
HostIdle ==
    /\ alive = TRUE
    /\ transport_started = FALSE
    /\ forwarded_ports = <<>>
    /\ hostLoop = "idle"
    /\ hostSent = <<>>
    /\ hostLog = <<>>

\* no ADBSession handshake is being looked at
HandshakeIdle ==
    /\ handshakePc = "idle"
    /\ session_max_payload = 4096
    /\ connected = FALSE
    /\ incoming = <<>>
    /\ outgoing = <<>>

\* no thread is writing to a connection
WriterIdle ==
    /\ wire = <<>>
    /\ writers = <<>>

\* an attribute the object does not have (hasattr is False)
NoAttr == <<>>

\* a SyncProtocol object that is given no request
ProtocolIdle ==
    /\ send_fp = NoAttr
    /\ send_path = NoAttr
    /\ fileObjects = <<>>
    /\ overlayFiles = <<>>
    /\ protoLog = <<>>

OtherIdle == HandshakeIdle /\ WriterIdle /\ ProtocolIdle

\* raw = pkt.to_bytes()
CodecEncode ==
    /\ codecPc = "new"
    /\ codecRaw' = to_bytes(codecPkt)
    /\ codecPc' = "encoded"
    /\ UNCHANGED <<codecPkt, codecFlip, codecOut>>
    /\ UNCHANGED <<transportVars, hostVars, otherVars>>

\* the channel inverts one bit of the encoded packet
CodecTamper ==
    /\ codecPc = "encoded"
    /\ codecFlip = -1
    /\ \E i \in 0..(8 * Len(codecRaw) - 1) :
          /\ codecRaw' = FlipBit(codecRaw, i)
          /\ codecFlip' = i
    /\ UNCHANGED <<codecPkt, codecOut, codecPc>>
    /\ UNCHANGED <<transportVars, hostVars, otherVars>>

\* the receiver gets only a prefix of the encoded packet
CodecTruncate ==
    /\ codecPc = "encoded"
    /\ codecFlip = -1
    /\ \E n \in {0, 3, HEADER_SIZE - 1} :
          /\ codecRaw' = SubSeq(codecRaw, 1, n)
          /\ codecFlip' = -2
    /\ UNCHANGED <<codecPkt, codecOut, codecPc>>
    /\ UNCHANGED <<transportVars, hostVars, otherVars>>

\* ADBPacket.from_bytes(raw)
CodecDecode ==
    /\ codecPc = "encoded"
    /\ codecOut' = from_bytes(codecRaw)
    /\ codecPc' = "decoded"
    /\ UNCHANGED <<codecPkt, codecRaw, codecFlip>>
    /\ UNCHANGED <<transportVars, hostVars, otherVars>>


-----------------------------------------------------------------------------
(* Claims about the codec                                                  *)

\* C1: Codec round-trip. Decoding the bytes to_bytes produced for a packet
\* with 32-bit fields succeeds and returns the same command, arg0, arg1 and
\* payload.
C1_RoundTrip ==
    (codecPc = "decoded" /\ codecFlip = -1) =>
        /\ codecOut.ok
        /\ codecOut.packet.command = codecPkt.command
        /\ codecOut.packet.arg0 = codecPkt.arg0
        /\ codecOut.packet.arg1 = codecPkt.arg1
        /\ codecOut.packet.payload = codecPkt.payload

C1_Witness ==
    /\ codecPc = "decoded" /\ codecFlip = -1
    /\ codecPkt.command = A_OPEN
    /\ codecPkt.arg0 = U32Max
    /\ Len(codecPkt.payload) = MaxPayloadLen
    /\ codecOut.ok

\* Which header field, or the payload, holds bit i of an encoded packet.
FieldOfBit(i) ==
    LET byte == i \div 8
    IN  IF byte < 4 THEN "command"
        ELSE IF byte < 8 THEN "arg0"
        ELSE IF byte < 12 THEN "arg1"
        ELSE IF byte < 16 THEN "length"
        ELSE IF byte < 20 THEN "checksum"
        ELSE IF byte < 24 THEN "magic"
        ELSE "payload"

\* C2 as stated: no single-bit corruption of the header or payload of a
\* valid packet decodes successfully; from_bytes fails with a magic, length
\* or checksum error.
C2_TamperDetect_Original ==
    (codecPc = "decoded" /\ codecFlip >= 0) =>
        /\ ~codecOut.ok
        /\ codecOut.error \in {"ADBMagicError", "ADBTruncatedError", "ADBChecksumError"}

\* C2 (amended): a single-bit flip in the command or magic field fails with
\* the magic error, in the length field with the length error, in the
\* checksum field or the payload with the checksum error; a flip in arg0 or
\* arg1 is not detected: from_bytes succeeds and the packet differs from the
\* original in that field only.
C2_TamperDetect ==
    (codecPc = "decoded" /\ codecFlip >= 0) =>
        LET f == FieldOfBit(codecFlip)
        IN  /\ f \in {"command", "magic"} =>
                 ~codecOut.ok /\ codecOut.error = "ADBMagicError"
            /\ f = "length" =>
                 /\ ~codecOut.ok
                 /\ codecOut.error = "ADBTruncatedError"
                 /\ codecOut.message = "payload length mismatch"
            /\ f \in {"checksum", "payload"} =>
                 ~codecOut.ok /\ codecOut.error = "ADBChecksumError"
            /\ f = "arg0" =>
                 /\ codecOut.ok
                 /\ codecOut.packet.arg0 # codecPkt.arg0
                 /\ codecOut.packet = [codecPkt EXCEPT !.arg0 = codecOut.packet.arg0]
            /\ f = "arg1" =>
                 /\ codecOut.ok
                 /\ codecOut.packet.arg1 # codecPkt.arg1
                 /\ codecOut.packet = [codecPkt EXCEPT !.arg1 = codecOut.packet.arg1]

C2_Witness ==
    /\ codecPc = "decoded"
    /\ codecFlip >= 8 * HEADER_SIZE
    /\ Len(codecPkt.payload) = MaxPayloadLen
    /\ ~codecOut.ok
    /\ codecOut.error = "ADBChecksumError"

\* The failure kinds of a buffer, by the conditions of the decoder's checks:
\* fewer than 24 bytes; magic # command XOR 0xFFFFFFFF; buffer length # 24 +
\* length field; byte sum of the bytes after the header # checksum field.
FailureKinds(raw) ==
    IF Len(raw) < HEADER_SIZE THEN {"truncated header"}
    ELSE (IF UnpackU32(raw, 20) # U32Xor(UnpackU32(raw, 0), U32Max)
          THEN {"magic mismatch"} ELSE {})
         \cup (IF U32OfNat(Len(raw)) # U32Add(UnpackU32(raw, 12), HEADER_SIZE)
               THEN {"length mismatch"} ELSE {})
         \cup (IF checksum(SubSeq(raw, HEADER_SIZE + 1, Len(raw))) # UnpackU32(raw, 16)
               THEN {"checksum mismatch"} ELSE {})

\* one buffer of each failure kind, made from the packet OPEN(0, 0, <<1>>):
\* three bytes of it, its magic, length and payload with one bit inverted
ReferenceBuffers ==
    LET raw == to_bytes(ADBPacket(A_OPEN, <<0, 0>>, <<0, 0>>, <<1>>))
    IN  { SubSeq(raw, 1, 3), FlipBit(raw, 8 * 20), FlipBit(raw, 8 * 12 + 1),
          FlipBit(raw, 8 * HEADER_SIZE) }

\* C14 (decode error taxonomy): from_bytes fails exactly on the buffers that
\* have a failure kind, and the error class it raises for a buffer of one
\* kind differs from the class it raises for a buffer of any other kind
\* (truncated header, magic mismatch, length mismatch, checksum mismatch).
C14_DistinctErrors ==
    codecPc = "decoded" =>
        /\ codecOut.ok <=> FailureKinds(codecRaw) = {}
        /\ \A r \in ReferenceBuffers :
              (/\ Cardinality(FailureKinds(codecRaw)) = 1
               /\ Cardinality(FailureKinds(r)) = 1
               /\ FailureKinds(r) # FailureKinds(codecRaw)) =>
                    from_bytes(r).error # codecOut.error

\* the same with the message taken into account: class and message together
\* tell the four kinds apart
C14_DistinctMessages ==
    codecPc = "decoded" =>
        /\ codecOut.ok <=> FailureKinds(codecRaw) = {}
        /\ \A r \in ReferenceBuffers :
              (/\ Cardinality(FailureKinds(codecRaw)) = 1
               /\ Cardinality(FailureKinds(r)) = 1
               /\ FailureKinds(r) # FailureKinds(codecRaw)) =>
                    <<from_bytes(r).error, from_bytes(r).message>>
                        # <<codecOut.error, codecOut.message>>

\* a buffer whose only failure is the length has been decoded
C14_LengthMismatchSeen ==
    /\ codecPc = "decoded"
    /\ FailureKinds(codecRaw) = {"length mismatch"}
    /\ ~codecOut.ok
    /\ codecOut.error = "ADBTruncatedError"
    /\ codecOut.message = "payload length mismatch"

-----------------------------------------------------------------------------
(* Text constants: str values as their UTF-8 bytes                         *)

T_shell ==  \* 'shell:'
    <<115, 104, 101, 108, 108, 58>>

T_exec ==  \* 'exec:'
    <<101, 120, 101, 99, 58>>

T_sync ==  \* 'sync:'
    <<115, 121, 110, 99, 58>>

T_logcat ==  \* 'logcat'
    <<108, 111, 103, 99, 97, 116>>

T_bogus ==  \* 'bogus:'
    <<98, 111, 103, 117, 115, 58>>

T_echo_hi ==  \* 'echo hi'
    <<101, 99, 104, 111, 32, 104, 105>>

T_hi ==  \* 'hi\n'
    <<104, 105, 10>>

T_nope ==  \* 'nope'
    <<110, 111, 112, 101>>

T_not_found_pre ==  \* '/system/bin/sh: '
    <<47, 115, 121, 115, 116, 101, 109, 47, 98, 105, 110, 47, 115, 104, 58,
      32>>

T_not_found_post ==  \* ': not found\n'
    <<58, 32, 110, 111, 116, 32, 102, 111, 117, 110, 100, 10>>

T_exit ==  \* 'exit'
    <<101, 120, 105, 116>>

T_exit_echo ==  \* 'exit\r\n'
    <<101, 120, 105, 116, 13, 10>>

T_ctrl_c ==  \* '^C\r\n'
    <<94, 67, 13, 10>>

T_prompt_pre ==  \* 'shell@mock:'
    <<115, 104, 101, 108, 108, 64, 109, 111, 99, 107, 58>>

T_prompt_post ==  \* '$ '
    <<36, 32>>

T_banner ==  \* 'device::ro.product.name=mock;ro.product.model=MockPhone;ro.product.device=mockdevice;'
    <<100, 101, 118, 105, 99, 101, 58, 58, 114, 111, 46, 112, 114, 111,
      100, 117, 99, 116, 46, 110, 97, 109, 101, 61, 109, 111, 99, 107, 59,
      114, 111, 46, 112, 114, 111, 100, 117, 99, 116, 46, 109, 111, 100,
      101, 108, 61, 77, 111, 99, 107, 80, 104, 111, 110, 101, 59, 114, 111,
      46, 112, 114, 111, 100, 117, 99, 116, 46, 100, 101, 118, 105, 99,
      101, 61, 109, 111, 99, 107, 100, 101, 118, 105, 99, 101, 59>>

T_features ==  \* ';features='
    <<59, 102, 101, 97, 116, 117, 114, 101, 115, 61>>

T_path_not_found ==  \* 'Path not found: '
    <<80, 97, 116, 104, 32, 110, 111, 116, 32, 102, 111, 117, 110, 100, 58,
      32>>

T_not_a_file ==  \* 'Not a file: '
    <<78, 111, 116, 32, 97, 32, 102, 105, 108, 101, 58, 32>>

T_not_a_directory ==  \* 'Not a directory: '
    <<78, 111, 116, 32, 97, 32, 100, 105, 114, 101, 99, 116, 111, 114, 121,
      58, 32>>

T_cannot_write ==  \* 'Cannot write to non-file: '
    <<67, 97, 110, 110, 111, 116, 32, 119, 114, 105, 116, 101, 32, 116,
      111, 32, 110, 111, 110, 45, 102, 105, 108, 101, 58, 32>>

T_exists_not_dir ==  \* 'Path exists and is not a directory: '
    <<80, 97, 116, 104, 32, 101, 120, 105, 115, 116, 115, 32, 97, 110, 100,
      32, 105, 115, 32, 110, 111, 116, 32, 97, 32, 100, 105, 114, 101, 99,
      116, 111, 114, 121, 58, 32>>

T_dangling ==  \* 'Dangling symlink: '
    <<68, 97, 110, 103, 108, 105, 110, 103, 32, 115, 121, 109, 108, 105,
      110, 107, 58, 32>>

T_arrow ==  \* ' -> '
    <<32, 45, 62, 32>>

T_already_exists ==  \* 'Path already exists: '
    <<80, 97, 116, 104, 32, 97, 108, 114, 101, 97, 100, 121, 32, 101, 120,
      105, 115, 116, 115, 58, 32>>

T_STAT ==  \* 'STAT'
    <<83, 84, 65, 84>>

T_SEND ==  \* 'SEND'
    <<83, 69, 78, 68>>

T_DATA ==  \* 'DATA'
    <<68, 65, 84, 65>>

T_DONE ==  \* 'DONE'
    <<68, 79, 78, 69>>

T_RECV ==  \* 'RECV'
    <<82, 69, 67, 86>>

T_LIST ==  \* 'LIST'
    <<76, 73, 83, 84>>

T_QUIT ==  \* 'QUIT'
    <<81, 85, 73, 84>>

T_FAIL ==  \* 'FAIL'
    <<70, 65, 73, 76>>

T_OKAY ==  \* 'OKAY'
    <<79, 75, 65, 89>>

T_DENT ==  \* 'DENT'
    <<68, 69, 78, 84>>

T_JUNK ==  \* 'JUNK'
    <<74, 85, 78, 75>>

T_data_without_send ==  \* 'DATA without SEND'
    <<68, 65, 84, 65, 32, 119, 105, 116, 104, 111, 117, 116, 32, 83, 69,
      78, 68>>

T_done_without_send ==  \* 'DONE without SEND'
    <<68, 79, 78, 69, 32, 119, 105, 116, 104, 111, 117, 116, 32, 83, 69,
      78, 68>>

T_malformed_send ==  \* 'Malformed SEND request'
    <<77, 97, 108, 102, 111, 114, 109, 101, 100, 32, 83, 69, 78, 68, 32,
      114, 101, 113, 117, 101, 115, 116>>

T_unsupported_sync ==  \* 'Unsupported sync command '
    <<85, 110, 115, 117, 112, 112, 111, 114, 116, 101, 100, 32, 115, 121,
      110, 99, 32, 99, 111, 109, 109, 97, 110, 100, 32>>

SLASH == 47        \* ord("/")
COMMA == 44        \* ord(",")
DOT == 46          \* ord(".")
NUL == 0           \* "\0"
LF == 10           \* "\n"
CR == 13           \* "\r"
CTRL_C == 3        \* "\x03"
CTRL_D == 4        \* "\x04"
SPACE == 32        \* " "

\* None, where a str or bytes value is optional
None == <<-1>>
\* None, where a path is optional
NoPath == <<<<-1>>>>

\* str.startswith / bytes.startswith
StartsWith(s, prefix) ==
    Len(s) >= Len(prefix) /\ SubSeq(s, 1, Len(prefix)) = prefix

\* bytes.rstrip(b"\x00")
RECURSIVE RStripNul(_)
RStripNul(s) ==
    IF Len(s) > 0 /\ s[Len(s)] = NUL THEN RStripNul(SubSeq(s, 1, Len(s) - 1)) ELSE s

\* x in s
Contains(s, x) == \E i \in 1..Len(s) : s[i] = x

\* s.split(sep): the pieces between the separators, empty pieces included
RECURSIVE SplitFrom(_, _, _, _)
SplitFrom(s, sep, i, cur) ==
    IF i > Len(s) THEN <<cur>>
    ELSE IF s[i] = sep THEN <<cur>> \o SplitFrom(s, sep, i + 1, <<>>)
    ELSE SplitFrom(s, sep, i + 1, Append(cur, s[i]))

Split(s, sep) == SplitFrom(s, sep, 1, <<>>)

\* index of the last occurrence of x in s, 0 when there is none
RECURSIVE LastIndexOf(_, _, _)
LastIndexOf(s, x, i) ==
    IF i = 0 THEN 0 ELSE IF s[i] = x THEN i ELSE LastIndexOf(s, x, i - 1)

\* concatenation of a sequence of sequences
RECURSIVE Concat(_)
Concat(ss) == IF ss = <<>> THEN <<>> ELSE Head(ss) \o Concat(Tail(ss))

CeilDiv(n, m) == (n + m - 1) \div m

-----------------------------------------------------------------------------
(* In-memory file system: src/adb_server/filesystem.py                     *)
(* A normalised path is the sequence of its components; <<>> is "/".       *)

ROOT == <<>>

\* str(PurePosixPath) of a normalised path
RECURSIVE PathTail(_)
PathTail(p) == IF p = <<>> THEN <<>> ELSE <<SLASH>> \o Head(p) \o PathTail(Tail(p))

PathStr(p) == IF p = ROOT THEN <<SLASH>> ELSE PathTail(p)

\* PurePosixPath.parent
Parent(p) == IF p = ROOT THEN ROOT ELSE SubSeq(p, 1, Len(p) - 1)

\* MockFileSystem._normalize: the loop over path.parts
RECURSIVE NormalizeParts(_, _)
NormalizeParts(parts, acc) ==
    IF parts = <<>> THEN acc
    ELSE LET part == Head(parts)
         IN  IF part = <<>> \/ part = <<DOT>>
             THEN NormalizeParts(Tail(parts), acc)
             ELSE IF part = <<DOT, DOT>>
             THEN NormalizeParts(Tail(parts),
                                 IF acc # <<>> THEN SubSeq(acc, 1, Len(acc) - 1) ELSE acc)
             ELSE NormalizeParts(Tail(parts), Append(acc, part))

\* MockFileSystem._normalize(path, cwd): path is a str, cwd a normalised path
\* (a relative path is joined to cwd, then "." and ".." are resolved)
_normalize(path, cwd) ==
    IF Len(path) > 0 /\ path[1] = SLASH
    THEN NormalizeParts(Split(path, SLASH), <<>>)
    ELSE NormalizeParts(cwd \o Split(path, SLASH), <<>>)

FileEntry(path, node_type, permissions, owner, group, content, link_target) ==
    [path |-> path, node_type |-> node_type, permissions |-> permissions,
     owner |-> owner, group |-> group, content |-> content,
     link_target |-> link_target]

DefaultPermissions == 493     \* FileEntry.permissions = 0o755

\* MockFileSystem.__init__
EmptyFs ==
    [entries |-> (ROOT :> FileEntry(ROOT, "dir", DefaultPermissions, "root", "root", <<>>, NoPath)),
     children |-> (ROOT :> {})]

FsOk(fs, value) == [ok |-> TRUE, fs |-> fs, value |-> value]
FilesystemError(msg) == [ok |-> FALSE, error |-> "FilesystemError", message |-> msg]

\* dict.setdefault(key, set()).add(x) on the children table
ChildrenAdd(children, parent, child) ==
    IF parent \in DOMAIN children
    THEN [children EXCEPT ![parent] = @ \cup {child}]
    ELSE children @@ (parent :> {child})

ChildrenEnsure(children, path) ==
    IF path \in DOMAIN children THEN children ELSE children @@ (path :> {})

\* MockFileSystem._ensure_directory: the file system with path and its
\* missing ancestors created as directories, or a FilesystemError.
RECURSIVE _ensure_directory(_, _)
_ensure_directory(fs, path) ==
    IF path = ROOT THEN FsOk(fs, TRUE)
    ELSE IF path \in DOMAIN fs.entries
    THEN IF fs.entries[path].node_type # "dir"
         THEN FilesystemError(T_exists_not_dir \o PathStr(path))
         ELSE FsOk(fs, TRUE)
    ELSE LET up == _ensure_directory(fs, Parent(path))
         IN  IF ~up.ok THEN up
             ELSE LET entry == FileEntry(path, "dir", DefaultPermissions, "root", "root", <<>>, NoPath)
                  IN  FsOk([entries |-> up.fs.entries @@ (path :> entry),
                            children |-> ChildrenAdd(ChildrenEnsure(up.fs.children, path),
                                                     Parent(path), path)],
                           TRUE)

\* MockFileSystem._ensure_parent_dirs
_ensure_parent_dirs(fs, path) ==
    IF Parent(path) = path THEN FsOk(fs, TRUE) ELSE _ensure_directory(fs, Parent(path))

\* MockFileSystem._add_entry
_add_entry(fs, entry) ==
    IF entry.path \in DOMAIN fs.entries
    THEN FilesystemError(T_already_exists \o PathStr(entry.path))
    ELSE LET parent == Parent(entry.path)
             up == IF parent \notin DOMAIN fs.entries
                   THEN _ensure_directory(fs, parent) ELSE FsOk(fs, TRUE)
         IN  IF ~up.ok THEN up
             ELSE FsOk([entries |-> up.fs.entries @@ (entry.path :> entry),
                        children |-> ChildrenAdd(ChildrenEnsure(up.fs.children, entry.path),
                                                 parent, entry.path)],
                       TRUE)

\* MockFileSystem._resolve_symlink (follow = True): the path of the entry a
\* chain of symlinks ends at, or a FilesystemError for a dangling link.
RECURSIVE _resolve_symlink(_, _)
_resolve_symlink(fs, entry) ==
    IF entry.node_type = "symlink" /\ entry.link_target # NoPath
    THEN LET target == entry.link_target
         IN  IF target \notin DOMAIN fs.entries
             THEN FilesystemError(T_dangling \o PathStr(entry.path)
                                  \o T_arrow \o PathStr(entry.link_target))
             ELSE _resolve_symlink(fs, fs.entries[target])
    ELSE FsOk(fs, entry)

\* MockFileSystem.get_entry(path, cwd, follow=True)
get_entry(fs, path, cwd) ==
    LET normalized == _normalize(path, cwd)
    IN  IF normalized \notin DOMAIN fs.entries
        THEN FilesystemError(T_path_not_found \o PathStr(normalized))
        ELSE _resolve_symlink(fs, fs.entries[normalized])

\* MockFileSystem.read_file
read_file(fs, path, cwd) ==
    LET found == get_entry(fs, path, cwd)
    IN  IF ~found.ok THEN found
        ELSE IF found.value.node_type # "file"
        THEN FilesystemError(T_not_a_file \o PathStr(found.value.path))
        ELSE FsOk(fs, found.value.content)

\* A plausible slip in write_file: an existing file is appended to.
write_file_append(fs, path, data, mode) ==
    LET normalized == _normalize(path, ROOT)
    IN  IF normalized \in DOMAIN fs.entries
        THEN LET found == _resolve_symlink(fs, fs.entries[normalized])
             IN  IF ~found.ok THEN found
                 ELSE IF found.value.node_type # "file"
                 THEN FilesystemError(T_cannot_write \o PathStr(normalized))
                 ELSE FsOk([fs EXCEPT !.entries[found.value.path] =
                                [@ EXCEPT !.content = @ \o data, !.permissions = mode,
                                          !.owner = "shell", !.group = "shell"]],
                           TRUE)
        ELSE LET up == _ensure_parent_dirs(fs, normalized)
             IN  IF ~up.ok THEN up
                 ELSE _add_entry(up.fs, FileEntry(normalized, "file", mode, "shell",
                                                  "shell", data, NoPath))

\* MockFileSystem.write_file(path, data, mode=mode) with cwd = None,
\* owner = group = "shell", append = False
write_file(fs, path, data, mode) ==
    LET normalized == _normalize(path, ROOT)
    IN  IF normalized \in DOMAIN fs.entries
        THEN LET found == _resolve_symlink(fs, fs.entries[normalized])
             IN  IF ~found.ok THEN found
                 ELSE IF found.value.node_type # "file"
                 THEN FilesystemError(T_cannot_write \o PathStr(normalized))
                 ELSE FsOk([fs EXCEPT !.entries[found.value.path] =
                                [@ EXCEPT !.content = data, !.permissions = mode,
                                          !.owner = "shell", !.group = "shell"]],
                           TRUE)
        ELSE LET up == _ensure_parent_dirs(fs, normalized)
             IN  IF ~up.ok THEN up
                 ELSE _add_entry(up.fs, FileEntry(normalized, "file", mode, "shell",
                                                  "shell", data, NoPath))

-----------------------------------------------------------------------------
(* Transport session: src/adb_server/transport.py, and the streams it      *)
(* owns: src/adb_server/streams/{base,shell,sync,logcat}.py                *)
(*                                                                         *)
(* A handler is a function from session records to session records; the    *)
(* record `t` holds every field a handler reads or writes:                 *)
(*   max_payload, by_local, by_remote, next_remote_id, active              *)
(*                 the fields of ADBTransportSession                       *)
(*   streams       the stream objects ever created, by server-assigned id  *)
(*   fs            device.filesystem;  log_cursor  device._log_cursor      *)
(*   sent          the packets passed to conn.sendall, in call order       *)
(*   broken        conn raises BrokenPipeError on sendall                  *)
(*   raised        the exception propagating out of the handler, or "none" *)
(*   sendLog, cause   bookkeeping for the properties (see the variables)   *)
(* Once `raised` is set the rest of the handler is skipped.                *)

T_echo ==  \* 'echo'
    <<101, 99, 104, 111>>

T_abc ==  \* 'abc'
    <<97, 98, 99>>

T_nope_path ==  \* '/nope'
    <<47, 110, 111, 112, 101>>

T_log_A ==  \* 'I a'
    <<73, 32, 97>>

T_log_B ==  \* 'W b'
    <<87, 32, 98>>

MAX_PAYLOAD_CAP == 262144          \* 256 * 1024 in _handle_cnxn
DEFAULT_MAX_PAYLOAD == 4096        \* ADBTransportSession.__init__
LOG_LINES_PER_CHUNK == 5           \* next_log_lines(5) in LogcatStream.start

\* device.log_messages (the "logs" of the configuration)
LogMessages == <<T_log_A, T_log_B>>

Packet(command, arg0, arg1, payload) ==
    [command |-> command, arg0 |-> arg0, arg1 |-> arg1, payload |-> payload]

\* the stream object a constructor of src/adb_server/streams returns
NewStream(kind, local_id, remote_id, initial_command, interactive, cwd) ==
    [kind |-> kind, local_id |-> local_id, remote_id |-> remote_id,
     closed |-> FALSE,
     \* ShellStream
     initial_command |-> initial_command, interactive |-> interactive,
     input_buffer |-> <<>>, awaiting_exit |-> FALSE, cwd |-> cwd,
     \* SyncStream
     buffer |-> <<>>, current_path |-> None, current_mode |-> 436,
     current_data |-> <<>>,
     \* LogcatStream: the producer thread and its position
     stop_event |-> FALSE, thread |-> "none", pc |-> "top", pending |-> <<>>]

Raise(t, exc) == IF t.raised = "none" THEN [t EXCEPT !.raised = exc] ELSE t

\* ADBTransportSession._send_packet; `call` is the number of the
\* send_stream_data call the packet belongs to, 0 for any other packet
_send_packet(t, packet, call) ==
    [t EXCEPT !.sent = Append(@, [command |-> packet.command, arg0 |-> packet.arg0,
                                   arg1 |-> packet.arg1, payload |-> packet.payload,
                                   cause |-> t.cause, call |-> call]),
              !.active = IF t.broken THEN FALSE ELSE @]

\* the for loop of send_stream_data: one WRTE per chunk of m bytes
RECURSIVE SendChunks(_, _, _, _, _, _)
SendChunks(t, stream, data, m, i, call) ==
    IF i >= Len(data) THEN t
    ELSE SendChunks(
            _send_packet(t, Packet("WRTE", stream.remote_id, stream.local_id,
                                   SubSeq(data, i + 1, Min(i + m, Len(data)))), call),
            stream, data, m, i + m, call)

\* ADBTransportSession.send_stream_data; range(0, len(data), 0) raises
\* ValueError
send_stream_data(t, rid, data) ==
    LET stream == t.streams[rid]
        call == Len(t.sendLog) + 1
        registered == stream.remote_id \in DOMAIN t.by_remote
        t1 == [t EXCEPT !.sendLog = Append(@, [rid |-> rid, lid |-> stream.local_id,
                                               data |-> data, m |-> t.max_payload,
                                               registered |-> registered,
                                               cause |-> t.cause])]
    IN  IF ~registered THEN t1
        ELSE IF t.max_payload = 0 THEN Raise(t1, "ValueError")
        ELSE SendChunks(t1, stream, data, t.max_payload, 0, call)

\* dict.pop(key, None)
Without(f, key) == [k \in DOMAIN f \ {key} |-> f[k]]

\* a close_stream that leaves the peer id in streams_by_local
close_stream_keep_local(t, rid) ==
    LET stream == t.streams[rid]
        t1 == [t EXCEPT !.by_remote = Without(@, stream.remote_id)]
    IN  _send_packet(t1, Packet("CLSE", stream.remote_id, stream.local_id, <<>>), 0)

\* ADBTransportSession.close_stream
close_stream(t, rid) ==
    LET stream == t.streams[rid]
        t1 == [t EXCEPT !.by_remote = Without(@, stream.remote_id),
                        !.by_local = Without(@, stream.local_id)]
    IN  _send_packet(t1, Packet("CLSE", stream.remote_id, stream.local_id, <<>>), 0)

\* BaseStream.send
send(t, rid, data) ==
    IF t.raised # "none" THEN t
    ELSE IF t.streams[rid].closed THEN Raise(t, "StreamClosed")
    ELSE send_stream_data(t, rid, data)

\* handle_close of BaseStream and ShellStream (closed = True) and of
\* LogcatStream (stop the producer first; join(timeout=0.5) returns whether
\* or not the producer has ended)
handle_close(t, rid) ==
    IF t.streams[rid].kind = "logcat"
    THEN [t EXCEPT !.streams[rid].stop_event = TRUE, !.streams[rid].closed = TRUE]
    ELSE [t EXCEPT !.streams[rid].closed = TRUE]

\* BaseStream.close
close(t, rid) ==
    IF t.raised # "none" THEN t
    ELSE IF t.streams[rid].closed THEN t
    ELSE LET t1 == close_stream(handle_close(t, rid), rid)
         IN  [t1 EXCEPT !.streams[rid].closed = TRUE]

-----------------------------------------------------------------------------
(* Shell: src/adb_server/shell.py and src/adb_server/streams/shell.py      *)

IsSpace(c) == c \in {SPACE, 9, LF, CR, 11, 12}

\* str.strip()
RECURSIVE LStrip(_)
LStrip(s) == IF Len(s) > 0 /\ IsSpace(s[1]) THEN LStrip(Tail(s)) ELSE s
RECURSIVE RStrip(_)
RStrip(s) ==
    IF Len(s) > 0 /\ IsSpace(s[Len(s)]) THEN RStrip(SubSeq(s, 1, Len(s) - 1)) ELSE s
Strip(s) == LStrip(RStrip(s))

\* shlex.split of a command line without quotes: the non-empty words
Words(s) == SelectSeq(Split(s, SPACE), LAMBDA w : w # <<>>)

\* " ".join(words)
RECURSIVE JoinWith(_, _)
JoinWith(words, sep) ==
    IF words = <<>> THEN <<>>
    ELSE IF Len(words) = 1 THEN words[1]
    ELSE words[1] \o sep \o JoinWith(Tail(words), sep)

ShellResponse(stdout, stderr, exit_code) ==
    [stdout |-> stdout, stderr |-> stderr, exit_code |-> exit_code]

\* ShellEnvironment.execute for the commands the inputs draw: echo
\* (cmd_echo), exit (cmd_exit) and names without a cmd_ handler
\* (_execute_single's "not found").
execute(command0) ==
    LET command == Strip(command0)
        tokens == Words(command)
        cmd == tokens[1]
        args == Tail(tokens)
    IN  IF command = <<>> THEN ShellResponse(<<>>, <<>>, 0)
        ELSE IF cmd = T_echo
        THEN ShellResponse(JoinWith(args, <<SPACE>>) \o <<LF>>, <<>>, 0)
        ELSE IF cmd = T_exit
        THEN ShellResponse(<<>>, T_exit \o <<LF>>, 0)
        ELSE ShellResponse(<<>>, T_not_found_pre \o cmd \o T_not_found_post, 127)

\* ShellResponse.as_text
as_text(response) ==
    IF response.stderr # <<>> THEN response.stdout \o response.stderr
    ELSE response.stdout

\* str.replace("\n", "\r\n")
RECURSIVE CrLf(_)
CrLf(s) ==
    IF s = <<>> THEN <<>>
    ELSE IF Head(s) = LF THEN <<CR, LF>> \o CrLf(Tail(s))
    ELSE <<Head(s)>> \o CrLf(Tail(s))

\* ShellEnvironment.__init__: cwd is /data when it exists, else /
ShellCwd(fs) == IF <<<<100, 97, 116, 97>>>> \in DOMAIN fs.entries
                THEN <<<<100, 97, 116, 97>>>> ELSE ROOT

\* ShellEnvironment.prompt: "{user}@{device}:{cwd}$ "
prompt(stream) == T_prompt_pre \o PathStr(stream.cwd) \o T_prompt_post

\* ShellStream._send_response
_send_response(t, rid, response) ==
    LET output == as_text(response)
    IN  IF output # <<>> THEN send(t, rid, CrLf(output)) ELSE t

\* ShellStream.start
ShellStart(t, rid) ==
    LET stream == t.streams[rid]
    IN  IF stream.initial_command # None
        THEN close(_send_response(t, rid, execute(stream.initial_command)), rid)
        ELSE IF stream.interactive THEN send(t, rid, prompt(stream))
        ELSE t

\* ShellStream.handle_client_data: the loop over the characters of the text
RECURSIVE ShellChars(_, _, _)
ShellChars(t, rid, text) ==
    IF text = <<>> \/ t.raised # "none" THEN t
    ELSE LET char == Head(text)
             stream == t.streams[rid]
         IN  IF char = CTRL_C
             THEN ShellChars(
                    send(send([t EXCEPT !.streams[rid].input_buffer = <<>>], rid, T_ctrl_c),
                         rid, prompt(stream)),
                    rid, Tail(text))
             ELSE IF char = CTRL_D
             THEN close([t EXCEPT !.streams[rid].awaiting_exit = TRUE], rid)
             ELSE IF char \in {CR, LF}
             THEN LET command == Strip(stream.input_buffer)
                      t1 == [t EXCEPT !.streams[rid].input_buffer = <<>>]
                  IN  IF command # <<>>
                      THEN IF command = T_exit
                           THEN close(send(t1, rid, T_exit_echo), rid)
                           ELSE ShellChars(
                                  send(_send_response(t1, rid, execute(command)),
                                       rid, prompt(stream)),
                                  rid, Tail(text))
                      ELSE ShellChars(send(t1, rid, prompt(stream)), rid, Tail(text))
             ELSE ShellChars([t EXCEPT !.streams[rid].input_buffer = Append(@, char)],
                             rid, Tail(text))

\* ShellStream.handle_client_data
ShellData(t, rid, data) ==
    IF ~t.streams[rid].interactive THEN t ELSE ShellChars(t, rid, data)

-----------------------------------------------------------------------------
(* Sync stream: src/adb_server/streams/sync.py                             *)

SYNC_HEADER_SIZE == 8              \* struct.Struct("<4sI").size
CHUNK_SIZE == 65536                \* 64 * 1024
DEFAULT_MODE == 436                \* 0o664
S_IFDIR == 16384                   \* 0o040000
S_IFLNK == 40960                   \* 0o120000
S_IFREG == 32768                   \* 0o100000

\* a | b for naturals below 2^n
RECURSIVE OrBits(_, _, _)
OrBits(a, b, n) ==
    IF n = 0 THEN 0
    ELSE (IF (a % 2) + (b % 2) > 0 THEN 1 ELSE 0) + 2 * OrBits(a \div 2, b \div 2, n - 1)

\* struct "<I" of a natural below 2^31
PackNat(n) == PackU32(U32OfNat(n))

\* the length field of a sync header (bytes 5..8 of the buffer)
UnpackNat(raw, off) ==
    raw[off + 1] + (256 * raw[off + 2]) + (65536 * raw[off + 3])
        + (16777216 * raw[off + 4])

\* one sync sub-message on the wire: SYNC_HEADER.pack(tag, len(payload)) + payload
SyncMsg(tag, payload) == tag \o PackNat(Len(payload)) \o payload

\* SyncStream._with_type_bits
_with_type_bits(entry) ==
    IF entry.node_type = "dir" THEN OrBits(entry.permissions, S_IFDIR, 31)
    ELSE IF entry.node_type = "symlink" THEN OrBits(entry.permissions, S_IFLNK, 31)
    ELSE OrBits(entry.permissions, S_IFREG, 31)

\* SyncStream._send_chunk
_send_chunk(t, rid, command, payload) == send(t, rid, SyncMsg(command, payload))

\* SyncStream._send_fail
_send_fail(t, rid, message) == send(t, rid, SyncMsg(T_FAIL, message))

\* A plausible slip in _handle_stat: a missing path is reported with FAIL.
_handle_stat_fail(t, rid, payload) ==
    LET found == get_entry(t.fs, payload, ROOT)
    IN  IF found.ok
        THEN _send_chunk(t, rid, T_STAT,
                 PackNat(_with_type_bits(found.value))
                 \o PackNat(IF found.value.node_type = "file"
                            THEN Len(found.value.content) ELSE 0)
                 \o PackNat(0))
        ELSE _send_fail(t, rid, found.message)

\* SyncStream._handle_stat
_handle_stat(t, rid, payload) ==
    LET found == get_entry(t.fs, payload, ROOT)
        mode == IF found.ok THEN _with_type_bits(found.value) ELSE 0
        size == IF found.ok /\ found.value.node_type = "file"
                THEN Len(found.value.content) ELSE 0
    IN  _send_chunk(t, rid, T_STAT, PackNat(mode) \o PackNat(size) \o PackNat(0))

IsOctalDigit(c) == c \in 48..55

\* int(text, 8) for a string of octal digits
RECURSIVE OctalValue(_, _)
OctalValue(text, acc) ==
    IF text = <<>> THEN acc ELSE OctalValue(Tail(text), (8 * acc) + (Head(text) - 48))

\* int(mode_text, 8) with the ValueError branch of _handle_send: a text that
\* is not a non-empty string of octal digits gives the default mode
ParseMode(mode_text) ==
    IF mode_text # <<>> /\ \A i \in 1..Len(mode_text) : IsOctalDigit(mode_text[i])
    THEN OctalValue(mode_text, 0)
    ELSE DEFAULT_MODE

\* a _handle_send that creates the destination at once, as open(path, "wb")
\* would
_handle_send_create(t, rid, payload) ==
    IF ~Contains(payload, COMMA)
    THEN _send_fail(t, rid, T_malformed_send)
    ELSE LET k == LastIndexOf(payload, COMMA, Len(payload))
             path == SubSeq(payload, 1, k - 1)
             mode_text == SubSeq(payload, k + 1, Len(payload))
             written == write_file(t.fs, path, <<>>, ParseMode(mode_text))
         IN  [t EXCEPT !.streams[rid].current_mode = ParseMode(mode_text),
                       !.streams[rid].current_path = path,
                       !.streams[rid].current_data = <<>>,
                       !.fs = IF written.ok THEN written.fs ELSE @]

\* SyncStream._handle_send
_handle_send(t, rid, payload) ==
    IF ~Contains(payload, COMMA)
    THEN _send_fail(t, rid, T_malformed_send)
    ELSE LET k == LastIndexOf(payload, COMMA, Len(payload))
             path == SubSeq(payload, 1, k - 1)
             mode_text == SubSeq(payload, k + 1, Len(payload))
         IN  [t EXCEPT !.streams[rid].current_mode = ParseMode(mode_text),
                       !.streams[rid].current_path = path,
                       !.streams[rid].current_data = <<>>]

\* "not self._current_path": None or the empty string
NoCurrentPath(stream) == stream.current_path = None \/ stream.current_path = <<>>

\* SyncStream._handle_data
_handle_data(t, rid, payload) ==
    IF NoCurrentPath(t.streams[rid])
    THEN _send_fail(t, rid, T_data_without_send)
    ELSE [t EXCEPT !.streams[rid].current_data = @ \o payload]

\* the finally clause of _handle_done
DoneFinally(t, rid) ==
    [t EXCEPT !.streams[rid].current_path = None,
              !.streams[rid].current_data = <<>>,
              !.streams[rid].current_mode = DEFAULT_MODE]

\* SyncStream._handle_done
_handle_done(t, rid, payload) ==
    LET stream == t.streams[rid]
    IN  IF NoCurrentPath(stream)
        THEN _send_fail(t, rid, T_done_without_send)
        ELSE LET written == write_file(t.fs, stream.current_path,
                                       stream.current_data, stream.current_mode)
             IN  IF written.ok
                 THEN DoneFinally(_send_chunk([t EXCEPT !.fs = written.fs],
                                              rid, T_OKAY, <<>>), rid)
                 ELSE DoneFinally(_send_fail(t, rid, written.message), rid)

\* the while loop of _handle_recv
RECURSIVE RecvChunks(_, _, _, _)
RecvChunks(t, rid, data, offset) ==
    IF offset >= Len(data) THEN t
    ELSE LET chunk == SubSeq(data, offset + 1, Min(offset + CHUNK_SIZE, Len(data)))
         IN  RecvChunks(_send_chunk(t, rid, T_DATA, chunk), rid, data,
                        offset + Len(chunk))

\* SyncStream._handle_recv
_handle_recv(t, rid, payload) ==
    LET got == read_file(t.fs, payload, ROOT)
    IN  IF ~got.ok THEN _send_fail(t, rid, got.message)
        ELSE _send_chunk(RecvChunks(t, rid, got.value, 0), rid, T_DONE, <<>>)

\* a < b for byte strings (str comparison)
RECURSIVE BytesLess(_, _)
BytesLess(a, b) ==
    IF b = <<>> THEN FALSE
    ELSE IF a = <<>> THEN TRUE
    ELSE IF Head(a) # Head(b) THEN Head(a) < Head(b)
    ELSE BytesLess(Tail(a), Tail(b))

\* sorted(children): the children of one directory, by their last component
RECURSIVE SortedPaths(_)
SortedPaths(S) ==
    IF S = {} THEN <<>>
    ELSE LET least == CHOOSE p \in S :
                         \A q \in S \ {p} : BytesLess(p[Len(p)], q[Len(q)])
         IN  <<least>> \o SortedPaths(S \ {least})

\* the for loop of _handle_list
RECURSIVE ListEntries(_, _, _)
ListEntries(t, rid, paths) ==
    IF paths = <<>> THEN t
    ELSE LET entry == t.fs.entries[Head(paths)]
             name == IF entry.path = ROOT THEN <<SLASH>> ELSE entry.path[Len(entry.path)]
             size == IF entry.node_type = "file" THEN Len(entry.content) ELSE 0
             dent == PackNat(_with_type_bits(entry)) \o PackNat(size) \o PackNat(0)
                        \o PackNat(Len(name)) \o name
         IN  ListEntries(_send_chunk(t, rid, T_DENT, dent), rid, Tail(paths))

\* SyncStream._handle_list (MockFileSystem.list_dir inlined)
_handle_list(t, rid, payload) ==
    LET found == get_entry(t.fs, payload, ROOT)
    IN  IF ~found.ok THEN _send_fail(t, rid, found.message)
        ELSE IF found.value.node_type # "dir"
        THEN _send_fail(t, rid, T_not_a_directory \o PathStr(found.value.path))
        ELSE _send_chunk(
                ListEntries(t, rid, SortedPaths(t.fs.children[found.value.path])),
                rid, T_DONE, <<>>)

\* SyncStream._dispatch
_dispatch(t, rid, command, payload) ==
    IF command = T_STAT THEN _handle_stat(t, rid, payload)
    ELSE IF command = T_SEND THEN _handle_send(t, rid, payload)
    ELSE IF command = T_DATA THEN _handle_data(t, rid, payload)
    ELSE IF command = T_DONE THEN _handle_done(t, rid, payload)
    ELSE IF command = T_RECV THEN _handle_recv(t, rid, payload)
    ELSE IF command = T_LIST THEN _handle_list(t, rid, payload)
    ELSE IF command = T_QUIT THEN close(t, rid)
    ELSE _send_fail(t, rid, T_unsupported_sync \o command)

\* the while loop of SyncStream.handle_client_data
RECURSIVE SyncLoop(_, _)
SyncLoop(t, rid) ==
    LET buffer == t.streams[rid].buffer
    IN  IF t.raised # "none" \/ Len(buffer) < SYNC_HEADER_SIZE THEN t
        ELSE LET length == UnpackNat(buffer, 4)
                 total == SYNC_HEADER_SIZE + length
             IN  IF Len(buffer) < total THEN t
                 ELSE SyncLoop(
                        _dispatch([t EXCEPT !.streams[rid].buffer =
                                       SubSeq(buffer, total + 1, Len(buffer))],
                                  rid, SubSeq(buffer, 1, 4),
                                  SubSeq(buffer, SYNC_HEADER_SIZE + 1, total)),
                        rid)

\* SyncStream.handle_client_data
SyncData(t, rid, data) ==
    SyncLoop([t EXCEPT !.streams[rid].buffer = @ \o data], rid)

-----------------------------------------------------------------------------
(* Logcat stream: src/adb_server/streams/logcat.py                         *)

\* MockDevice.next_log_lines(count): the lines from the cursor on, cycling
RECURSIVE next_log_lines(_, _)
next_log_lines(cursor, count) ==
    IF count = 0 THEN <<>>
    ELSE <<LogMessages[(cursor % Len(LogMessages)) + 1]>>
            \o next_log_lines(cursor + 1, count - 1)

\* LogcatStream.start: the producer thread starts at the top of its loop
LogcatStart(t, rid) ==
    [t EXCEPT !.streams[rid].thread = "running", !.streams[rid].pc = "top"]

\* LogcatStream.handle_client_data
LogcatData(t, rid, data) ==
    IF Contains(data, CTRL_C) THEN close(t, rid) ELSE t

-----------------------------------------------------------------------------
(* The packet handlers of ADBTransportSession                              *)

T_serial ==  \* 'MOCK123456'
    <<77, 79, 67, 75, 49, 50, 51, 52, 53, 54>>

T_model ==  \* 'MockPhone'
    <<77, 111, 99, 107, 80, 104, 111, 110, 101>>

SEMICOLON == 59

T_device_prefix ==  \* 'device::'
    <<100, 101, 118, 105, 99, 101, 58, 58>>

T_ro_product_name ==  \* 'ro.product.name='
    <<114, 111, 46, 112, 114, 111, 100, 117, 99, 116, 46, 110, 97, 109,
      101, 61>>

T_ro_product_model ==  \* 'ro.product.model='
    <<114, 111, 46, 112, 114, 111, 100, 117, 99, 116, 46, 109, 111, 100,
      101, 108, 61>>

T_ro_product_device ==  \* 'ro.product.device='
    <<114, 111, 46, 112, 114, 111, 100, 117, 99, 116, 46, 100, 101, 118,
      105, 99, 101, 61>>

T_ro_serialno ==  \* 'ro.serialno='
    <<114, 111, 46, 115, 101, 114, 105, 97, 108, 110, 111, 61>>

T_mock ==  \* 'mock'
    <<109, 111, 99, 107>>

T_mockdevice ==  \* 'mockdevice'
    <<109, 111, 99, 107, 100, 101, 118, 105, 99, 101>>

\* MockDevice.get_device_banner: the product name and the product device
\* are properties with defaults, the model is metadata.model
get_device_banner ==
    T_device_prefix \o T_ro_product_name \o T_mock \o <<SEMICOLON>>
        \o T_ro_product_model \o T_model \o <<SEMICOLON>>
        \o T_ro_product_device \o T_mockdevice \o <<SEMICOLON>>

\* f"{self.device.get_device_banner()};features={features}\0" with
\* features = ""
CnxnBanner == get_device_banner \o T_features \o <<NUL>>

\* ADBTransportSession._handle_cnxn
_handle_cnxn(t, packet) ==
    LET t1 == [t EXCEPT !.max_payload = Min(packet.arg1, MAX_PAYLOAD_CAP)]
    IN  _send_packet(t1, Packet("CNXN", packet.arg0, t1.max_payload, CnxnBanner), 0)

\* ADBTransportSession._handle_auth
_handle_auth(t, packet) ==
    _send_packet(t, Packet("CNXN", packet.arg0, t.max_payload, CnxnBanner), 0)

\* _create_stream returning None
NoStream == NewStream("none", 0, 0, None, FALSE, ROOT)

\* ADBTransportSession._create_stream: the new stream object, or NoStream
_create_stream(t, service, local_id, remote_id) ==
    IF StartsWith(service, T_shell)
    THEN LET command == SubSeq(service, Len(T_shell) + 1, Len(service))
         IN  IF command # <<>>
             THEN NewStream("shell", local_id, remote_id, command, FALSE, ShellCwd(t.fs))
             ELSE NewStream("shell", local_id, remote_id, None, TRUE, ShellCwd(t.fs))
    ELSE IF StartsWith(service, T_exec)
    THEN NewStream("shell", local_id, remote_id,
                   SubSeq(service, Len(T_exec) + 1, Len(service)), FALSE, ShellCwd(t.fs))
    ELSE IF StartsWith(service, T_sync)
    THEN NewStream("sync", local_id, remote_id, None, FALSE, ROOT)
    ELSE IF StartsWith(service, T_logcat)
    THEN NewStream("logcat", local_id, remote_id, None, FALSE, ROOT)
    ELSE NoStream

\* stream.start()
start(t, rid) ==
    IF t.streams[rid].kind = "shell" THEN ShellStart(t, rid)
    ELSE IF t.streams[rid].kind = "logcat" THEN LogcatStart(t, rid)
    ELSE t

\* stream.handle_client_data(data)
handle_client_data(t, rid, data) ==
    IF t.streams[rid].kind = "shell" THEN ShellData(t, rid, data)
    ELSE IF t.streams[rid].kind = "sync" THEN SyncData(t, rid, data)
    ELSE LogcatData(t, rid, data)

\* f[key] = value on a dict
Put(f, key, value) == [k \in DOMAIN f \cup {key} |-> IF k = key THEN value ELSE f[k]]

\* A plausible slip in _allocate_remote_id: the lowest id no live stream holds
\* is handed out again.
_handle_open_reuse(t, packet) ==
    LET service == RStripNul(packet.payload)
        local_id == packet.arg0
        remote_id == CHOOSE n \in 1..(Cardinality(DOMAIN t.by_remote) + 1) :
                        /\ n \notin DOMAIN t.by_remote
                        /\ \A k \in 1..(n - 1) : k \in DOMAIN t.by_remote
        t1 == [t EXCEPT !.next_remote_id = @ + 1]
        stream == _create_stream(t1, service, local_id, remote_id)
    IN  IF stream = NoStream
        THEN _send_packet(t1, Packet("CLSE", remote_id, local_id, <<>>), 0)
        ELSE LET t2 == [t1 EXCEPT !.streams = Put(@, remote_id, stream),
                                  !.by_local = Put(@, local_id, remote_id),
                                  !.by_remote = Put(@, remote_id, remote_id)]
             IN  start(_send_packet(t2, Packet("OKAY", remote_id, local_id, <<>>), 0),
                       remote_id)

\* ADBTransportSession._handle_open (with _allocate_remote_id)
_handle_open(t, packet) ==
    LET service == RStripNul(packet.payload)
        local_id == packet.arg0
        remote_id == t.next_remote_id
        t1 == [t EXCEPT !.next_remote_id = @ + 1]
        stream == _create_stream(t1, service, local_id, remote_id)
    IN  IF stream = NoStream
        THEN _send_packet(t1, Packet("CLSE", remote_id, local_id, <<>>), 0)
        ELSE LET t2 == [t1 EXCEPT !.streams = Put(@, remote_id, stream),
                                  !.by_local = Put(@, local_id, remote_id),
                                  !.by_remote = Put(@, remote_id, remote_id)]
             IN  start(_send_packet(t2, Packet("OKAY", remote_id, local_id, <<>>), 0),
                       remote_id)

\* A plausible slip in _handle_write: the payload is delivered before the
\* acknowledgement is written.
_handle_write_late_ack(t, packet) ==
    IF packet.arg0 \notin DOMAIN t.by_local THEN t
    ELSE LET rid == t.by_local[packet.arg0]
             stream == t.streams[rid]
             t1 == handle_client_data(t, rid, packet.payload)
         IN  IF t1.raised # "none" THEN t1
             ELSE _send_packet(t1, Packet("OKAY", stream.remote_id, stream.local_id, <<>>), 0)

\* A plausible slip in _handle_write: the acknowledgement is written from
\* the ids of the packet, before the stream is looked up.
_handle_write_ack_first(t, packet) ==
    LET t1 == _send_packet(t, Packet("OKAY", packet.arg1, packet.arg0, <<>>), 0)
    IN  IF packet.arg0 \notin DOMAIN t.by_local THEN t1
        ELSE handle_client_data(t1, t.by_local[packet.arg0], packet.payload)

\* ADBTransportSession._handle_write
_handle_write(t, packet) ==
    IF packet.arg0 \notin DOMAIN t.by_local THEN t
    ELSE LET rid == t.by_local[packet.arg0]
             stream == t.streams[rid]
         IN  handle_client_data(
                _send_packet(t, Packet("OKAY", stream.remote_id, stream.local_id, <<>>), 0),
                rid, packet.payload)

\* A plausible slip in _handle_close: the stream is looked up, not popped.
_handle_close_nopop(t, packet) ==
    IF packet.arg0 \notin DOMAIN t.by_local THEN t
    ELSE LET rid == t.by_local[packet.arg0]
             stream == t.streams[rid]
         IN  _send_packet(handle_close(t, rid),
                          Packet("CLSE", stream.remote_id, stream.local_id, <<>>), 0)

\* A plausible slip in _handle_close: the table of server ids is cleared
\* instead of losing the one entry of the stream.
_handle_close_clear(t, packet) ==
    IF packet.arg0 \notin DOMAIN t.by_local THEN t
    ELSE LET rid == t.by_local[packet.arg0]
             stream == t.streams[rid]
             t1 == [t EXCEPT !.by_local = Without(@, packet.arg0),
                             !.by_remote = <<>>]
         IN  _send_packet(handle_close(t1, rid),
                          Packet("CLSE", stream.remote_id, stream.local_id, <<>>), 0)

\* ADBTransportSession._handle_close
_handle_close(t, packet) ==
    IF packet.arg0 \notin DOMAIN t.by_local THEN t
    ELSE LET rid == t.by_local[packet.arg0]
             stream == t.streams[rid]
             t1 == [t EXCEPT !.by_local = Without(@, packet.arg0),
                             !.by_remote = Without(@, stream.remote_id)]
         IN  _send_packet(handle_close(t1, rid),
                          Packet("CLSE", stream.remote_id, stream.local_id, <<>>), 0)

\* ADBTransportSession._handle_okay
_handle_okay(t, packet) == t

\* the dispatch of ADBTransportSession.run
Dispatch(t, packet) ==
    IF packet.command = "CNXN" THEN _handle_cnxn(t, packet)
    ELSE IF packet.command = "OPEN" THEN _handle_open(t, packet)
    ELSE IF packet.command = "WRTE" THEN _handle_write(t, packet)
    ELSE IF packet.command = "CLSE" THEN _handle_close(t, packet)
    ELSE IF packet.command = "OKAY" THEN _handle_okay(t, packet)
    ELSE IF packet.command = "AUTH" THEN _handle_auth(t, packet)
    ELSE t

-----------------------------------------------------------------------------
(* The transport session as a state machine                                *)

MaxInbound == 3          \* inbound packets run() dispatches in one session
MaxLogChunks == 2        \* chunks the logcat producers pull from the device

ADB_PROTOCOL_VERSION == 16777217   \* 0x01000001, the version in CNXN.arg0

\* the session record of the current state; `cause` numbers the inbound
\* packet being handled (0: a producer thread)
Cur(cause) ==
    [max_payload |-> max_payload, by_local |-> streams_by_local,
     by_remote |-> streams_by_remote, next_remote_id |-> next_remote_id,
     active |-> active, streams |-> streams, fs |-> filesystem, log_cursor |-> log_cursor,
     sent |-> sent, sendLog |-> sendLog, broken |-> broken,
     raised |-> "none", cause |-> cause]

\* the next state holds the fields of t
Commit(t) ==
    /\ max_payload' = t.max_payload
    /\ streams_by_local' = t.by_local
    /\ streams_by_remote' = t.by_remote
    /\ next_remote_id' = t.next_remote_id
    /\ active' = t.active
    /\ streams' = t.streams
    /\ filesystem' = t.fs
    /\ log_cursor' = t.log_cursor
    /\ sent' = t.sent
    /\ sendLog' = t.sendLog

\* ADBTransportSession.__init__ on a device with file system f
Session(f) ==
    [max_payload |-> DEFAULT_MAX_PAYLOAD, by_local |-> <<>>, by_remote |-> <<>>,
     next_remote_id |-> 1, active |-> TRUE, streams |-> <<>>, fs |-> f,
     log_cursor |-> 0, sent |-> <<>>, sendLog |-> <<>>, broken |-> FALSE,
     raised |-> "none", cause |-> 0]

\* the state is session t inside run(), having dispatched the packets of log
StateIs(t, log) ==
    /\ max_payload = t.max_payload
    /\ streams_by_local = t.by_local
    /\ streams_by_remote = t.by_remote
    /\ next_remote_id = t.next_remote_id
    /\ active = t.active
    /\ streams = t.streams
    /\ loop = "running"
    /\ loopExc = "none"
    /\ broken = FALSE
    /\ filesystem = t.fs
    /\ log_cursor = t.log_cursor
    /\ sent = t.sent
    /\ sendLog = t.sendLog
    /\ inLog = log

TransportInit(f) == StateIs(Session(f), <<>>)

\* the record of an inbound packet: the packet, the stream its arg0 was
\* bound to when it arrived (0: none), the packets written before it
LogEntry(t, packet) ==
    [command |-> packet.command, arg0 |-> packet.arg0,
     arg1 |-> packet.arg1, payload |-> packet.payload,
     target |-> IF packet.arg0 \in DOMAIN t.by_local
                THEN t.by_local[packet.arg0] ELSE 0,
     sentBefore |-> Len(t.sent)]

\* one iteration of run(): read `packet`, dispatch it. An exception a handler
\* lets escape ends run().
Deliver(packet) ==
    /\ loop = "running"
    /\ active
    /\ LET t == Dispatch(Cur(Len(inLog) + 1), packet)
       IN  /\ Commit(t)
           /\ loop' = IF t.raised # "none" THEN "crashed" ELSE "running"
           /\ loopExc' = t.raised
    /\ inLog' = Append(inLog, LogEntry(Cur(0), packet))
    /\ UNCHANGED <<broken, codecVars, hostVars, otherVars>>

Receive(packet) == Len(inLog) < MaxInbound /\ Deliver(packet)

\* ---- the packets the peer sends ----
PeerIds == {7, 9}
PeerMaxPayloads == {0, 3, DEFAULT_MAX_PAYLOAD}
Services == { T_shell \o T_echo_hi \o <<NUL>>,      \* one-shot shell
              T_shell \o <<NUL>>,                   \* interactive shell
              T_sync \o <<NUL>>,
              T_logcat \o <<NUL>>,
              T_bogus \o <<NUL>> }                  \* no such service

\* what a client writes to the stream bound to peer id `id`
WritePayloads(id) ==
    IF id \notin DOMAIN streams_by_local THEN { T_abc }
    ELSE LET stream == streams[streams_by_local[id]]
         IN  IF stream.kind = "shell"
             THEN { T_echo_hi \o <<LF>>, T_abc \o <<CTRL_C>>, T_exit \o <<LF>> }
             ELSE IF stream.kind = "sync"
             THEN { SyncMsg(T_STAT, T_nope_path), SyncMsg(T_QUIT, <<>>),
                    \* two sub-messages in one buffer
                    SyncMsg(T_QUIT, <<>>) \o SyncMsg(T_STAT, T_nope_path) }
             ELSE { <<CTRL_C>> }

\* what a peer advertises in CNXN.arg1, a value above the cap included
CnxnMaxPayloads == PeerMaxPayloads \cup {2 * MAX_PAYLOAD_CAP}

RecvCnxn ==
    \E m \in CnxnMaxPayloads : Receive(Packet("CNXN", ADB_PROTOCOL_VERSION, m, <<>>))

RecvAuth == Receive(Packet("AUTH", 1, 0, <<>>))

RecvOpen ==
    \E id \in PeerIds, service \in Services : Receive(Packet("OPEN", id, 0, service))

RecvWrite ==
    \E id \in PeerIds : \E data \in WritePayloads(id) :
        \E arg1 \in IF id \in DOMAIN streams_by_local
                     THEN {streams_by_local[id]} ELSE {0, 1} :
            Receive(Packet("WRTE", id, arg1, data))

RecvClose == \E id \in PeerIds : Receive(Packet("CLSE", id, 0, <<>>))

RecvOkay == \E id \in PeerIds : Receive(Packet("OKAY", id, 0, <<>>))

\* a command run() does not know: logged and ignored
RecvOther == Receive(Packet("SYNC", 0, 0, <<>>))

\* _read_packet returns None: the peer closed the connection
ReadEof ==
    /\ loop = "running"
    /\ active
    /\ loop' = "ended"
    /\ UNCHANGED <<max_payload, streams_by_local, streams_by_remote, next_remote_id,
                   active, streams, loopExc, broken, filesystem, log_cursor, sent, sendLog,
                   inLog, codecVars, hostVars, otherVars>>

\* "while self.active" is false: run() returns
LoopExit ==
    /\ loop = "running"
    /\ ~active
    /\ loop' = "ended"
    /\ UNCHANGED <<max_payload, streams_by_local, streams_by_remote, next_remote_id,
                   active, streams, loopExc, broken, filesystem, log_cursor, sent, sendLog,
                   inLog, codecVars, hostVars, otherVars>>

\* the peer goes away: from now on sendall raises BrokenPipeError
PipeBreaks ==
    /\ loop = "running"
    /\ ~broken
    /\ broken' = TRUE
    /\ UNCHANGED <<sessionVars, filesystem, log_cursor, sent, sendLog, inLog, codecVars, hostVars, otherVars>>

\* the producer thread of LogcatStream.start, from the loop test to the
\* payload: "while not self._stop_event.is_set()", next_log_lines(5), join
LogcatPull(rid) ==
    /\ streams[rid].thread = "running"
    /\ streams[rid].pc = "top"
    /\ IF streams[rid].stop_event
       THEN /\ streams' = [streams EXCEPT ![rid].thread = "exited"]
            /\ UNCHANGED log_cursor
       ELSE /\ log_cursor < LOG_LINES_PER_CHUNK * MaxLogChunks
            /\ streams' = [streams EXCEPT
                   ![rid].pc = "send",
                   ![rid].pending =
                       JoinWith(next_log_lines(log_cursor, LOG_LINES_PER_CHUNK), <<LF>>)
                           \o <<LF>>]
            /\ log_cursor' = log_cursor + LOG_LINES_PER_CHUNK
    /\ UNCHANGED <<max_payload, streams_by_local, streams_by_remote, next_remote_id,
                   active, loop, loopExc, broken, filesystem, sent, sendLog, inLog, codecVars, hostVars, otherVars>>

\* a producer thread that takes its stream out of streams_by_remote when it
\* has sent
LogcatSend_unregister(rid) ==
    /\ streams[rid].thread = "running"
    /\ streams[rid].pc = "send"
    /\ LET t == send(Cur(0), rid, streams[rid].pending)
           t1 == [t EXCEPT !.streams[rid].pending = <<>>,
                           !.by_remote = Without(@, rid)]
       IN  IF t.raised # "none"
           THEN Commit([t1 EXCEPT !.streams[rid].thread = "exited"])
           ELSE Commit([t1 EXCEPT !.streams[rid].pc = "top"])
    /\ UNCHANGED <<loop, loopExc, broken, inLog, codecVars, hostVars, otherVars>>

\* the producer thread: self.send(payload) inside "try ... except Exception:
\* break", then the sleep
LogcatSend(rid) ==
    /\ streams[rid].thread = "running"
    /\ streams[rid].pc = "send"
    /\ LET t == send(Cur(0), rid, streams[rid].pending)
           t1 == [t EXCEPT !.streams[rid].pending = <<>>]
       IN  IF t.raised # "none"
           THEN Commit([t1 EXCEPT !.streams[rid].thread = "exited"])
           ELSE Commit([t1 EXCEPT !.streams[rid].pc = "top"])
    /\ UNCHANGED <<loop, loopExc, broken, inLog, codecVars, hostVars, otherVars>>

LogcatStep == \E rid \in DOMAIN streams : LogcatPull(rid) \/ LogcatSend(rid)

Init == TransportInit(EmptyFs) /\ CodecIdle /\ HostIdle /\ OtherIdle

Next ==
    \/ RecvCnxn
    \/ RecvAuth
    \/ RecvOpen
    \/ RecvWrite
    \/ RecvClose
    \/ RecvOkay
    \/ RecvOther
    \/ ReadEof
    \/ LoopExit
    \/ PipeBreaks
    \/ LogcatStep

Spec == Init /\ [][Next]_vars

-----------------------------------------------------------------------------
(* The codec on its own                                                    *)

CodecInit == CodecStart /\ TransportInit(EmptyFs) /\ HostIdle /\ OtherIdle

CodecNext == CodecEncode \/ CodecTamper \/ CodecTruncate \/ CodecDecode

SpecCodec == CodecInit /\ [][CodecNext]_vars

-----------------------------------------------------------------------------
(* Properties of the transport session                                     *)

\* the packets one send_stream_data call passed to the connection, in order
CallPackets(call) == SelectSeq(sent, LAMBDA p : p.call = call)

\* the packets written while inbound packet number i was being handled
ReplyPackets(i) == SelectSeq(sent, LAMBDA p : p.cause = i)

Payloads(ps) == [i \in DOMAIN ps |-> ps[i].payload]

\* C3 (segmentation): every send_stream_data call of N > 0 bytes for a
\* registered stream, made with max-payload M, emits exactly ceil(N/M) WRTE
\* packets for that stream (k packets with (k-1)*M < N <= k*M), each of at
\* most M bytes, whose payloads concatenated in order are the N bytes.
C3_Segmentation ==
    \A call \in DOMAIN sendLog :
        LET e == sendLog[call]
            ps == CallPackets(call)
        IN  (e.registered /\ Len(e.data) > 0) =>
                /\ Len(ps) * e.m >= Len(e.data)
                /\ (Len(ps) - 1) * e.m < Len(e.data)
                /\ \A i \in DOMAIN ps :
                        /\ ps[i].command = "WRTE"
                        /\ ps[i].arg0 = e.rid
                        /\ ps[i].arg1 = e.lid
                        /\ Len(ps[i].payload) <= e.m
                /\ Concat(Payloads(ps)) = e.data

\* C3 holds of every call made with a positive max-payload
C3_SegmentationPositive ==
    \A call \in DOMAIN sendLog :
        LET e == sendLog[call]
            ps == CallPackets(call)
        IN  (e.registered /\ Len(e.data) > 0 /\ e.m > 0) =>
                /\ Len(ps) = CeilDiv(Len(e.data), e.m)
                /\ \A i \in DOMAIN ps :
                        /\ ps[i].command = "WRTE"
                        /\ ps[i].arg0 = e.rid
                        /\ ps[i].arg1 = e.lid
                        /\ Len(ps[i].payload) <= e.m
                /\ Concat(Payloads(ps)) = e.data

\* a call that had to be split: more bytes than the max-payload
C3_SplitHappens ==
    \E call \in DOMAIN sendLog :
        /\ sendLog[call].registered
        /\ sendLog[call].m > 0
        /\ Len(sendLog[call].data) > sendLog[call].m
        /\ Len(CallPackets(call)) > 1

\* C4 (WRTE ack-before-deliver): for every inbound WRTE whose arg0 is bound
\* to a stream, the first packet the transport writes in reaction is
\* OKAY(arg0 = server id, arg1 = peer id), so it precedes every WRTE and CLSE
\* the stream handler produces from that payload; there is one such OKAY.
C4_AckBeforeDeliver ==
    \A i \in DOMAIN inLog :
        (inLog[i].command = "WRTE" /\ inLog[i].target # 0) =>
            LET ps == ReplyPackets(i)
            IN  /\ Len(ps) >= 1
                /\ ps[1].command = "OKAY"
                /\ ps[1].arg0 = inLog[i].target
                /\ ps[1].arg1 = inLog[i].arg0
                /\ \A k \in 2..Len(ps) : ps[k].command \in {"WRTE", "CLSE"}

\* an inbound WRTE whose handler answered with data and one whose handler
\* closed the stream
C4_Witness ==
    /\ \E i \in DOMAIN inLog :
        /\ inLog[i].command = "WRTE"
        /\ inLog[i].target # 0
        /\ \E k \in 2..Len(ReplyPackets(i)) : ReplyPackets(i)[k].command = "WRTE"
    /\ \E i \in DOMAIN inLog :
        /\ inLog[i].command = "WRTE"
        /\ inLog[i].target # 0
        /\ \E k \in 2..Len(ReplyPackets(i)) : ReplyPackets(i)[k].command = "CLSE"

\* the service string _handle_open derives from the last inbound packet
LastIn == inLog'[Len(inLog')]
UnknownService(payload) ==
    LET service == RStripNul(payload)
    IN  /\ ~StartsWith(service, T_shell)
        /\ ~StartsWith(service, T_exec)
        /\ ~StartsWith(service, T_sync)
        /\ ~StartsWith(service, T_logcat)

\* C5 (OPEN of an unknown service): the step that handles an OPEN naming none
\* of shell:, exec:, sync:, logcat writes exactly one packet, CLSE with
\* arg0 = 0 and arg1 = the peer's stream id, adds no stream to either table,
\* and leaves run() looping.
C5_UnknownServiceClse ==
    [][ (inLog' # inLog /\ LastIn.command = "OPEN" /\ UnknownService(LastIn.payload)) =>
            /\ Len(sent') = Len(sent) + 1
            /\ sent'[Len(sent')].command = "CLSE"
            /\ sent'[Len(sent')].arg0 = 0
            /\ sent'[Len(sent')].arg1 = LastIn.arg0
            /\ streams_by_local' = streams_by_local
            /\ streams_by_remote' = streams_by_remote
            /\ loop' = "running" ]_vars

\* C9 (idempotent close): the step that handles a CLSE whose arg0 is bound to
\* a stream marks the stream closed, removes it from both tables and writes
\* exactly one packet, CLSE(server id, peer id); the step that handles a CLSE
\* whose arg0 is bound to no stream -- the second CLSE for a stream -- changes
\* no field of the session, writes nothing and leaves run() looping.
C9_IdempotentClose ==
    [][ (inLog' # inLog /\ LastIn.command = "CLSE") =>
            IF LastIn.target # 0
            THEN /\ streams'[LastIn.target].closed
                 /\ LastIn.arg0 \notin DOMAIN streams_by_local'
                 /\ LastIn.target \notin DOMAIN streams_by_remote'
                 /\ Len(sent') = Len(sent) + 1
                 /\ SubSeq(sent', 1, Len(sent)) = sent
                 /\ sent'[Len(sent')].command = "CLSE"
                 /\ sent'[Len(sent')].arg0 = LastIn.target
                 /\ sent'[Len(sent')].arg1 = LastIn.arg0
                 /\ loop' = "running"
            ELSE /\ UNCHANGED sessionVars
                 /\ sent' = sent ]_vars

\* two consecutive CLSE for the same peer id, the first of them for a stream
\* that was open
C9_Witness ==
    \E i \in DOMAIN inLog :
        /\ i + 1 \in DOMAIN inLog
        /\ inLog[i].command = "CLSE"
        /\ inLog[i].target # 0
        /\ inLog[i + 1].command = "CLSE"
        /\ inLog[i + 1].arg0 = inLog[i].arg0
        /\ inLog[i + 1].target = 0
        /\ loop = "running"

\* C11 (max-payload negotiation): the step that handles a CNXN advertising P
\* sets the session max-payload to min(P, 262144), or to 4096 when P = 0, and
\* writes one CNXN carrying that value in arg1; no step leaves the session
\* with max-payload 0.
C11_MaxPayloadNegotiation ==
    [][ /\ max_payload' # 0
        /\ (inLog' # inLog /\ LastIn.command = "CNXN") =>
              LET M == IF LastIn.arg1 = 0 THEN DEFAULT_MAX_PAYLOAD
                       ELSE Min(LastIn.arg1, MAX_PAYLOAD_CAP)
              IN  /\ max_payload' = M
                  /\ Len(sent') = Len(sent) + 1
                  /\ sent'[Len(sent')].command = "CNXN"
                  /\ sent'[Len(sent')].arg1 = M ]_vars

\* C11 holds of every CNXN advertising a positive max payload
C11_NegotiationPositive ==
    [][ (inLog' # inLog /\ LastIn.command = "CNXN" /\ LastIn.arg1 > 0) =>
              /\ max_payload' = Min(LastIn.arg1, MAX_PAYLOAD_CAP)
              /\ Len(sent') = Len(sent) + 1
              /\ sent'[Len(sent')].command = "CNXN"
              /\ sent'[Len(sent')].arg1 = max_payload' ]_vars

\* a CNXN advertising more than the cap has been answered with the cap
C11_CapApplied ==
    /\ inLog # <<>>
    /\ inLog[Len(inLog)].command = "CNXN"
    /\ inLog[Len(inLog)].arg1 > MAX_PAYLOAD_CAP
    /\ max_payload = MAX_PAYLOAD_CAP
    /\ sent[Len(sent)].command = "CNXN"
    /\ sent[Len(sent)].arg1 = MAX_PAYLOAD_CAP

-----------------------------------------------------------------------------
(* A session with one sync stream                                          *)

MaxSyncOps == 4          \* sync sub-messages the peer writes to the stream

T_path_p ==  \* '/p'
    <<47, 112>>

T_path_n ==  \* '/n'
    <<47, 110>>

T_path_d ==  \* '/d'
    <<47, 100>>

T_path_l ==  \* '/l'
    <<47, 108>>

T_mode_644 ==  \* '644'
    <<54, 52, 52>>

T_mode_600 ==  \* '600'
    <<54, 48, 48>>

T_ab ==  \* 'ab'
    <<97, 98>>

T_c ==  \* 'c'
    <<99>>

T_z ==  \* 'z'
    <<122>>

\* MockFileSystem.create_from_config for definitions of fresh paths: a
\* definition is [path, type, content, target]; permissions, owner and group
\* take their defaults ("0755", "root", "root")
RECURSIVE create_from_config(_, _)
create_from_config(f, definitions) ==
    IF definitions = <<>> THEN f
    ELSE LET d == Head(definitions)
             path == _normalize(d.path, ROOT)
             entry == IF d.type = "dir"
                      THEN FileEntry(path, "dir", DefaultPermissions, "root", "root",
                                     <<>>, NoPath)
                      ELSE IF d.type = "file"
                      THEN FileEntry(path, "file", DefaultPermissions, "root", "root",
                                     d.content, NoPath)
                      ELSE FileEntry(path, "symlink", DefaultPermissions, "root", "root",
                                     <<>>, _normalize(d.target, ROOT))
             up == IF d.type = "dir" THEN FsOk(f, TRUE) ELSE _ensure_parent_dirs(f, path)
         IN  create_from_config(_add_entry(up.fs, entry).fs, Tail(definitions))

\* the device of the sync sessions: a file /p, a directory /d and a symlink
\* /l whose target /nope does not exist
SyncConfig ==
    << [path |-> T_path_p, type |-> "file", content |-> T_z, target |-> <<>>],
       [path |-> T_path_d, type |-> "dir", content |-> <<>>, target |-> <<>>],
       [path |-> T_path_l, type |-> "symlink", content |-> <<>>, target |-> T_nope_path] >>

\* the peer's id of the sync stream
SyncPeerId == CHOOSE id \in PeerIds : \A other \in PeerIds : id <= other

\* the session after CNXN with max-payload m and OPEN "sync:" on device f
SyncSession(f, m) ==
    LET t0 == Session(f)
        p1 == Packet("CNXN", ADB_PROTOCOL_VERSION, m, <<>>)
        t1 == Dispatch([t0 EXCEPT !.cause = 1], p1)
        p2 == Packet("OPEN", SyncPeerId, 0, T_sync \o <<NUL>>)
        t2 == Dispatch([t1 EXCEPT !.cause = 2], p2)
    IN  [t |-> t2, log |-> <<LogEntry(t0, p1), LogEntry(t1, p2)>>]

SyncInit ==
    /\ \E m \in PeerMaxPayloads :
          LET s == SyncSession(create_from_config(EmptyFs, SyncConfig), m)
          IN  StateIs(s.t, s.log)
    /\ CodecIdle
    /\ HostIdle
    /\ OtherIdle

\* the peer writes one whole sub-message to the sync stream
SyncWrite(tag, payload) ==
    /\ Len(inLog) < 2 + MaxSyncOps
    /\ Deliver(Packet("WRTE", SyncPeerId,
                      IF SyncPeerId \in DOMAIN streams_by_local
                      THEN streams_by_local[SyncPeerId] ELSE 0,
                      SyncMsg(tag, payload)))

SendSpecs ==
    { T_path_p \o <<COMMA>> \o T_mode_600,     \* an existing file
      T_path_n \o <<COMMA>> \o T_mode_644,     \* a new file
      T_path_d \o <<COMMA>> \o T_mode_644,     \* a directory
      <<COMMA>> \o T_mode_644 }               \* the empty path

SyncSendMsg == \E spec \in SendSpecs : SyncWrite(T_SEND, spec)
SyncDataMsg == \E data \in {T_ab, T_c} : SyncWrite(T_DATA, data)
SyncDoneMsg == SyncWrite(T_DONE, <<>>)
SyncStatMsg == \E path \in {T_nope_path, T_path_l, T_path_p} : SyncWrite(T_STAT, path)
SyncQuitMsg == SyncWrite(T_QUIT, <<>>)

SyncNext ==
    \/ SyncSendMsg
    \/ SyncDataMsg
    \/ SyncDoneMsg
    \/ SyncStatMsg
    \/ SyncQuitMsg

SpecSync == SyncInit /\ [][SyncNext]_vars


-----------------------------------------------------------------------------
(* Properties of the sync stream                                           *)

\* the payload of an inbound WRTE is exactly one sub-message with this tag
IsSubMsg(payload, tag) ==
    /\ Len(payload) >= SYNC_HEADER_SIZE
    /\ SubSeq(payload, 1, 4) = tag
    /\ UnpackNat(payload, 4) = Len(payload) - SYNC_HEADER_SIZE

SubMsgBody(payload) == SubSeq(payload, SYNC_HEADER_SIZE + 1, Len(payload))

\* inbound packet i carried one sub-message `tag` to the open stream rid
SubMsgAt(log, i, rid, tag) ==
    /\ i \in DOMAIN log
    /\ log[i].command = "WRTE"
    /\ log[i].target = rid
    /\ IsSubMsg(log[i].payload, tag)

\* the sub-messages a stream handed to the transport while the inbound
\* packets from..to were handled
Responses(log, from, to) ==
    LET picked == SelectSeq(log, LAMBDA e : e.cause >= from /\ e.cause <= to)
    IN  [i \in DOMAIN picked |-> picked[i].data]

\* SEND payload "<path>,<mode>": the text before and after the last comma
SendPath(spec) == SubSeq(spec, 1, LastIndexOf(spec, COMMA, Len(spec)) - 1)
SendMode(spec) == SubSeq(spec, LastIndexOf(spec, COMMA, Len(spec)) + 1, Len(spec))
IsSendSpec(spec) ==
    /\ Contains(spec, COMMA)
    /\ SendMode(spec) # <<>>
    /\ \A i \in 1..Len(SendMode(spec)) : IsOctalDigit(SendMode(spec)[i])

\* the step handles DONE, the last of SEND(spec), DATA(X), DATA(Y), DONE
\* written one after the other to the open sync stream rid
UploadEnds(rid, n) ==
    /\ inLog' # inLog
    /\ n = Len(inLog')
    /\ rid # 0
    /\ streams[rid].kind = "sync"
    /\ SubMsgAt(inLog', n - 3, rid, T_SEND)
    /\ IsSendSpec(SubMsgBody(inLog'[n - 3].payload))
    /\ SubMsgAt(inLog', n - 2, rid, T_DATA)
    /\ SubMsgAt(inLog', n - 1, rid, T_DATA)
    /\ SubMsgAt(inLog', n, rid, T_DONE)

\* what C6 promises of an upload that ends in this step
UploadDone(n) ==
    LET spec == SubMsgBody(inLog'[n - 3].payload)
        X == SubMsgBody(inLog'[n - 2].payload)
        Y == SubMsgBody(inLog'[n - 1].payload)
        got == read_file(filesystem', SendPath(spec), ROOT)
        entry == get_entry(filesystem', SendPath(spec), ROOT)
    IN  /\ got.ok
        /\ got.value = X \o Y
        /\ entry.ok
        /\ entry.value.permissions = OctalValue(SendMode(spec), 0)
        /\ Responses(sendLog', n - 3, n) = <<SyncMsg(T_OKAY, <<>>)>>

Writable(f, path) ==
    LET normalized == _normalize(path, ROOT)
    IN  /\ path # <<>>
        /\ IF normalized \in DOMAIN f.entries
           THEN /\ get_entry(f, path, ROOT).ok
                /\ get_entry(f, path, ROOT).value.node_type = "file"
           ELSE \A k \in 1..(Len(normalized) - 1) :
                    SubSeq(normalized, 1, k) \in DOMAIN f.entries =>
                        f.entries[SubSeq(normalized, 1, k)].node_type = "dir"

StatZeros == SyncMsg(T_STAT, PackNat(0) \o PackNat(0) \o PackNat(0))

-----------------------------------------------------------------------------
(* A sync session that pulls files                                         *)

MaxRecvOps == 2          \* sub-messages the peer writes in a pull session

T_path_f ==  \* '/f'
    <<47, 102>>

\* file sizes around the chunk size, and the 130 KiB of scenario S4
RecvSizes == {0, 1, CHUNK_SIZE, CHUNK_SIZE + 1, (2 * CHUNK_SIZE) + 2048}

\* S bytes whose values do not repeat with the chunk size
FileBytes(S) == [i \in 1..S |-> i % 251]

RecvConfig(S) ==
    << [path |-> T_path_f, type |-> "file", content |-> FileBytes(S), target |-> <<>>],
       [path |-> T_path_d, type |-> "dir", content |-> <<>>, target |-> <<>>] >>

\* the max-payload values of the pull sessions: nothing, the default and
\* the cap of _handle_cnxn
RecvMaxPayloads == {0, DEFAULT_MAX_PAYLOAD, MAX_PAYLOAD_CAP}

RecvInit ==
    /\ \E S \in RecvSizes, m \in RecvMaxPayloads :
          LET s == SyncSession(create_from_config(EmptyFs, RecvConfig(S)), m)
          IN  StateIs(s.t, s.log)
    /\ CodecIdle
    /\ HostIdle
    /\ OtherIdle

PullWrite(tag, payload) ==
    /\ Len(inLog) < 2 + MaxRecvOps
    /\ Deliver(Packet("WRTE", SyncPeerId,
                      IF SyncPeerId \in DOMAIN streams_by_local
                      THEN streams_by_local[SyncPeerId] ELSE 0,
                      SyncMsg(tag, payload)))

PullFile == PullWrite(T_RECV, T_path_f)
PullMissing == PullWrite(T_RECV, T_nope_path)
PullDirectory == PullWrite(T_RECV, T_path_d)
PullStat == PullWrite(T_STAT, T_path_f)

RecvNext ==
    \/ PullFile
    \/ PullMissing
    \/ PullDirectory
    \/ PullStat

SpecRecv == RecvInit /\ [][RecvNext]_vars

\* the sub-messages rs are DATA chunks of `content` followed by one DONE:
\* ceil(S/65536) DATA, each of at most 65536 bytes and all but the last of
\* exactly 65536, whose payloads concatenated are the content
IsChunked(rs, content) ==
    LET k == Len(rs) - 1
    IN  /\ Len(rs) >= 1
        /\ rs[Len(rs)] = SyncMsg(T_DONE, <<>>)
        /\ k = CeilDiv(Len(content), CHUNK_SIZE)
        /\ \A i \in 1..k :
              /\ IsSubMsg(rs[i], T_DATA)
              /\ Len(SubMsgBody(rs[i])) <= CHUNK_SIZE
              /\ (i < k => Len(SubMsgBody(rs[i])) = CHUNK_SIZE)
        /\ Concat([i \in 1..k |-> SubMsgBody(rs[i])]) = content

\* the step in which the open sync stream rid handles RECV of a path that
\* resolves to a regular file
RecvOfFile(rid) ==
    /\ inLog' # inLog
    /\ streams[rid].kind = "sync"
    /\ SubMsgAt(inLog', Len(inLog) + 1, rid, T_RECV)
    /\ read_file(filesystem, SubMsgBody(inLog'[Len(inLog) + 1].payload), ROOT).ok

\* C7 (sync RECV chunking): RECV of an existing regular file of size S makes
\* the stream emit exactly ceil(S/65536) DATA sub-messages, each of at most
\* 65536 bytes and all but the last of exactly 65536 bytes, then exactly one
\* DONE; the DATA payloads concatenated equal the file (S = 0: DONE alone).
C7_RecvChunking ==
    [][ \A rid \in DOMAIN streams :
            RecvOfFile(rid) =>
                IsChunked(Responses(sendLog', Len(inLog) + 1, Len(inLog) + 1),
                          read_file(filesystem, T_path_f, ROOT).value) ]_vars

\* C7 holds of every session whose max-payload is positive
C7_RecvChunkingPositive ==
    [][ \A rid \in DOMAIN streams :
            (RecvOfFile(rid) /\ max_payload > 0) =>
                IsChunked(Responses(sendLog', Len(inLog) + 1, Len(inLog) + 1),
                          read_file(filesystem, T_path_f, ROOT).value) ]_vars

\* the 130 KiB file has gone out as DATA of 65536, 65536 and 2048 bytes
C7_ThreeChunks ==
    \E i \in DOMAIN inLog :
        /\ SubMsgAt(inLog, i, 1, T_RECV)
        /\ Len(Responses(sendLog, i, i)) = 4
        /\ Len(SubMsgBody(Responses(sendLog, i, i)[3])) = 2048


-----------------------------------------------------------------------------
(* Host text protocol: src/adb_server/host.py                              *)
(*                                                                         *)
(* A handler is a function on the record h of the fields it reads and      *)
(* writes: alive, transport_started, forwarded_ports, sent (the replies    *)
(* passed to conn.sendall) and raised, the message of the HostProtocolError *)
(* that is propagating, or None.                                           *)

T_host ==  \* 'host:'
    <<104, 111, 115, 116, 58>>

T_host_serial ==  \* 'host-serial:'
    <<104, 111, 115, 116, 45, 115, 101, 114, 105, 97, 108, 58>>

T_version ==  \* 'version'
    <<118, 101, 114, 115, 105, 111, 110>>

T_001f ==  \* '001f'
    <<48, 48, 49, 102>>

T_transport_any ==  \* 'transport-any'
    <<116, 114, 97, 110, 115, 112, 111, 114, 116, 45, 97, 110, 121>>

T_transport ==  \* 'transport'
    <<116, 114, 97, 110, 115, 112, 111, 114, 116>>

T_transport_usb ==  \* 'transport-usb'
    <<116, 114, 97, 110, 115, 112, 111, 114, 116, 45, 117, 115, 98>>

T_transport_local ==  \* 'transport-local'
    <<116, 114, 97, 110, 115, 112, 111, 114, 116, 45, 108, 111, 99, 97, 108>>

T_get_state ==  \* 'get-state'
    <<103, 101, 116, 45, 115, 116, 97, 116, 101>>

T_get_serialno ==  \* 'get-serialno'
    <<103, 101, 116, 45, 115, 101, 114, 105, 97, 108, 110, 111>>

T_devices_l ==  \* 'devices-l'
    <<100, 101, 118, 105, 99, 101, 115, 45, 108>>

T_devices ==  \* 'devices'
    <<100, 101, 118, 105, 99, 101, 115>>

T_forward ==  \* 'forward:'
    <<102, 111, 114, 119, 97, 114, 100, 58>>

T_list_forward ==  \* 'list-forward'
    <<108, 105, 115, 116, 45, 102, 111, 114, 119, 97, 114, 100>>

T_forward_remove ==  \* 'forward-remove:'
    <<102, 111, 114, 119, 97, 114, 100, 45, 114, 101, 109, 111, 118, 101, 58>>

T_reboot ==  \* 'reboot'
    <<114, 101, 98, 111, 111, 116>>

T_features_cmd ==  \* 'features'
    <<102, 101, 97, 116, 117, 114, 101, 115>>

T_kill ==  \* 'kill'
    <<107, 105, 108, 108>>

T_norebind ==  \* 'norebind:'
    <<110, 111, 114, 101, 98, 105, 110, 100, 58>>

T_unknown_serial ==  \* 'Unknown serial '
    <<85, 110, 107, 110, 111, 119, 110, 32, 115, 101, 114, 105, 97, 108, 32>>

T_unsupported_request ==  \* 'Unsupported request: '
    <<85, 110, 115, 117, 112, 112, 111, 114, 116, 101, 100, 32, 114, 101, 113, 117, 101, 115, 116, 58, 32>>

T_unsupported_host ==  \* 'Unsupported host command: '
    <<85, 110, 115, 117, 112, 112, 111, 114, 116, 101, 100, 32, 104, 111, 115, 116, 32, 99, 111, 109, 109, 97, 110, 100, 58, 32>>

T_malformed_forward ==  \* 'Malformed forward spec'
    <<77, 97, 108, 102, 111, 114, 109, 101, 100, 32, 102, 111, 114, 119, 97, 114, 100, 32, 115, 112, 101, 99>>

T_remove_not_found ==  \* 'forward-remove: not found'
    <<102, 111, 114, 119, 97, 114, 100, 45, 114, 101, 109, 111, 118, 101, 58, 32, 110, 111, 116, 32, 102, 111, 117, 110, 100>>

T_state_device ==  \* 'device'
    <<100, 101, 118, 105, 99, 101>>

T_model_lower ==  \* 'mockphone'
    <<109, 111, 99, 107, 112, 104, 111, 110, 101>>

T_tab_device_product ==  \* '\tdevice product:'
    <<9, 100, 101, 118, 105, 99, 101, 32, 112, 114, 111, 100, 117, 99, 116, 58>>

T_sp_model ==  \* ' model:'
    <<32, 109, 111, 100, 101, 108, 58>>

T_sp_device ==  \* ' device:'
    <<32, 100, 101, 118, 105, 99, 101, 58>>

T_tab_device_nl ==  \* '\tdevice\n'
    <<9, 100, 101, 118, 105, 99, 101, 10>>

T_tcp_1 ==  \* 'tcp:1'
    <<116, 99, 112, 58, 49>>

T_tcp_2 ==  \* 'tcp:2'
    <<116, 99, 112, 58, 50>>

COLON == 58

\* str.partition(sep) for a one-character separator: <<before, after>>
Partition(s, sep) ==
    IF ~Contains(s, sep) THEN <<s, <<>>>>
    ELSE LET k == CHOOSE i \in 1..Len(s) : s[i] = sep /\ \A j \in 1..(i - 1) : s[j] # sep
         IN  <<SubSeq(s, 1, k - 1), SubSeq(s, k + 1, Len(s))>>

HexDigit(d) == IF d < 10 THEN 48 + d ELSE 87 + d

\* format(n, "x"): the lower-case hexadecimal digits of n
RECURSIVE HexDigits(_)
HexDigits(n) ==
    IF n < 16 THEN <<HexDigit(n)>> ELSE HexDigits(n \div 16) \o <<HexDigit(n % 16)>>

\* format(n, "04x"): padded with zeros to a width of at least four
Hex04(n) ==
    LET digits == HexDigits(n)
    IN  IF Len(digits) >= 4 THEN digits
        ELSE [i \in 1..(4 - Len(digits)) |-> 48] \o digits

IsHexDigit(c) == c \in 48..57 \/ c \in 97..102 \/ c \in 65..70

HexDigitValue(c) ==
    IF c \in 48..57 THEN c - 48 ELSE IF c \in 97..102 THEN c - 87 ELSE c - 55

\* int(text, 16) for a text of hexadecimal digits
RECURSIVE HexValue(_, _)
HexValue(text, acc) ==
    IF text = <<>> THEN acc ELSE HexValue(Tail(text), (16 * acc) + HexDigitValue(Head(text)))

HostRaise(h, message) == IF h.raised = None THEN [h EXCEPT !.raised = message] ELSE h

\* ADBHostSession._send_okay
_send_okay(h, payload) ==
    [h EXCEPT !.sent = Append(@, T_OKAY \o Hex04(Len(payload)) \o payload)]

\* ADBHostSession._send_fail
_send_fail_host(h, message) ==
    [h EXCEPT !.sent = Append(@, T_FAIL \o Hex04(Len(message)) \o message)]

\* device.add_forward_rule: forwarded_ports[local] = remote
add_forward_rule(rules, local, remote) ==
    IF \E i \in DOMAIN rules : rules[i].local = local
    THEN [i \in DOMAIN rules |->
            IF rules[i].local = local THEN [local |-> local, remote |-> remote]
            ELSE rules[i]]
    ELSE Append(rules, [local |-> local, remote |-> remote])

\* device.remove_forward_rule: forwarded_ports.pop(local, None)
remove_forward_rule(rules, local) == SelectSeq(rules, LAMBDA r : r.local # local)

\* "\n".join(f"{k} {v}" ...) + ("\n" if rules else "")
RECURSIVE ForwardLines(_)
ForwardLines(rules) ==
    IF rules = <<>> THEN <<>>
    ELSE <<Head(rules).local \o <<SPACE>> \o Head(rules).remote>> \o ForwardLines(Tail(rules))

ForwardListing(rules) ==
    IF rules = <<>> THEN <<>> ELSE JoinWith(ForwardLines(rules), <<LF>>) \o <<LF>>

\* ADBHostSession._handle_forward
_handle_forward(h, spec0) ==
    LET spec == IF StartsWith(spec0, T_norebind)
                THEN SubSeq(spec0, Len(T_norebind) + 1, Len(spec0)) ELSE spec0
    IN  IF ~Contains(spec, SEMICOLON) THEN HostRaise(h, T_malformed_forward)
        ELSE LET parts == Partition(spec, SEMICOLON)
             IN  _send_okay([h EXCEPT !.forwarded_ports =
                                  add_forward_rule(@, parts[1], parts[2])], <<>>)


\* ADBHostSession._handle_host_command (device.reboot() sets the state to
\* "rebooting" and back to "device" before it returns)
_handle_host_command(h, command) ==
    IF command = T_version THEN _send_okay(h, T_001f)
    ELSE IF command \in {T_transport_any, T_transport, T_transport_usb, T_transport_local}
    THEN [_send_okay(h, <<>>) EXCEPT !.transport_started = TRUE]
    ELSE IF StartsWith(command, T_get_state) THEN _send_okay(h, T_state_device)
    ELSE IF StartsWith(command, T_get_serialno) THEN _send_okay(h, T_serial)
    ELSE IF StartsWith(command, T_devices_l)
    THEN _send_okay(h, T_serial \o T_tab_device_product \o T_model \o T_sp_model
                        \o T_model \o T_sp_device \o T_model_lower \o <<LF>>)
    ELSE IF StartsWith(command, T_devices) THEN _send_okay(h, T_serial \o T_tab_device_nl)
    ELSE IF StartsWith(command, T_forward)
    THEN LET subcommand == SubSeq(command, Len(T_forward) + 1, Len(command))
         IN  IF subcommand = T_list_forward
             THEN _send_okay(h, ForwardListing(h.forwarded_ports))
             ELSE _handle_forward(h, subcommand)
    ELSE IF StartsWith(command, T_forward_remove)
    THEN LET target == SubSeq(command, Len(T_forward_remove) + 1, Len(command))
         IN  IF ~\E i \in DOMAIN h.forwarded_ports : h.forwarded_ports[i].local = target
             THEN _send_fail_host(h, T_remove_not_found)
             ELSE _send_okay([h EXCEPT !.forwarded_ports = remove_forward_rule(@, target)],
                             <<>>)
    ELSE IF command = T_list_forward THEN _send_okay(h, ForwardListing(h.forwarded_ports))
    ELSE IF StartsWith(command, T_reboot) THEN _send_okay(h, <<>>)
    ELSE IF command = T_features_cmd THEN _send_okay(h, <<>>)
    ELSE IF command = T_kill THEN [_send_okay(h, <<>>) EXCEPT !.alive = FALSE]
    ELSE HostRaise(h, T_unsupported_host \o command)

\* ADBHostSession._handle_request
_handle_request(h, request) ==
    IF StartsWith(request, T_host_serial)
    THEN LET serial_part == Partition(request, COLON)[1]
             rest == Partition(request, COLON)[2]
             serial == Partition(serial_part, COLON)[2]
         IN  IF serial # T_serial THEN HostRaise(h, T_unknown_serial \o serial)
             ELSE _handle_host_command(h, rest)
    ELSE IF StartsWith(request, T_host)
    THEN _handle_host_command(h, SubSeq(request, Len(T_host) + 1, Len(request)))
    ELSE HostRaise(h, T_unsupported_request \o request)

\* the body of the while loop of run() after _read_request: the handler,
\* and _send_fail for a HostProtocolError it raised
HandleOne(h, request) ==
    LET h1 == _handle_request(h, request)
    IN  IF h1.raised # None THEN [_send_fail_host(h1, h1.raised) EXCEPT !.raised = None]
        ELSE h1

MaxHostRequests == 2     \* requests one host session reads

HostCur ==
    [alive |-> alive, transport_started |-> transport_started,
     forwarded_ports |-> forwarded_ports, sent |-> hostSent, raised |-> None]

\* ADBHostSession.__init__
HostInit ==
    /\ alive = TRUE
    /\ transport_started = FALSE
    /\ forwarded_ports = <<>>
    /\ hostLoop = "running"
    /\ hostSent = <<>>
    /\ hostLog = <<>>
    /\ CodecIdle
    /\ TransportInit(EmptyFs)
    /\ OtherIdle

\* A plausible slip in run(): the loop test is "while self.alive", so the
\* session goes on reading host requests after a transport command.
HostRequest_noswitch(request) ==
    /\ hostLoop = "running"
    /\ Len(hostLog) < MaxHostRequests
    /\ HexValue(Hex04(Len(request)), 0) = Len(request)
    /\ Len(Hex04(Len(request))) = 4
    /\ LET h == HandleOne(HostCur, request)
       IN  /\ alive' = h.alive
           /\ transport_started' = h.transport_started
           /\ forwarded_ports' = h.forwarded_ports
           /\ hostSent' = h.sent
           /\ hostLoop' = IF ~h.alive THEN "ended" ELSE "running"
    /\ hostLog' = Append(hostLog, request)
    /\ UNCHANGED <<codecVars, transportVars, otherVars>>

\* one iteration of run(): _read_request reads the four length digits and
\* that many bytes, the request is handled, and the loop test decides whether
\* run() goes on, returns or switches to transport mode
HostRequest(request) ==
    /\ hostLoop = "running"
    /\ Len(hostLog) < MaxHostRequests
    /\ HexValue(Hex04(Len(request)), 0) = Len(request)   \* the length fits the header
    /\ Len(Hex04(Len(request))) = 4
    /\ LET h == HandleOne(HostCur, request)
       IN  /\ alive' = h.alive
           /\ transport_started' = h.transport_started
           /\ forwarded_ports' = h.forwarded_ports
           /\ hostSent' = h.sent
           /\ hostLoop' = IF ~h.alive THEN "ended"
                          ELSE IF h.transport_started THEN "transport"
                          ELSE "running"
    /\ hostLog' = Append(hostLog, request)
    /\ UNCHANGED <<codecVars, transportVars, otherVars>>

\* the length header is not hexadecimal: _read_request raises
\* HostProtocolError outside the try of run()
HostBadHeader ==
    /\ hostLoop = "running"
    /\ hostLoop' = "crashed"
    /\ UNCHANGED <<alive, transport_started, forwarded_ports, hostSent, hostLog,
                   codecVars, transportVars, otherVars>>

\* the peer closes the connection: _read_request returns None
HostEof ==
    /\ hostLoop = "running"
    /\ hostLoop' = "ended"
    /\ UNCHANGED <<alive, transport_started, forwarded_ports, hostSent, hostLog,
                   codecVars, transportVars, otherVars>>

\* a request of n bytes that names no host service
Junk(n) == [i \in 1..n |-> 120]

\* the longest request the four-digit header allows
MAX_REQUEST == (16 * 16 * 16 * 16) - 1

HostCommands ==
    { T_version, T_transport_any, T_transport, T_transport_usb, T_transport_local,
      T_get_state, T_get_serialno, T_devices_l, T_devices,
      T_forward \o T_tcp_1 \o <<SEMICOLON>> \o T_tcp_2,
      T_forward \o T_norebind \o T_tcp_2 \o <<SEMICOLON>> \o T_tcp_1,
      T_forward \o T_tcp_1,
      T_forward \o T_list_forward,
      T_forward_remove \o T_tcp_1,
      T_list_forward, T_reboot, T_features_cmd, T_kill, T_bogus }

HostCommandRequest == \E command \in HostCommands : HostRequest(T_host \o command)

\* the serials a client names: the configured one and another one
HostSerials == {T_serial, T_abc}

\* the commands a client routes by serial
HostSerialInners == {T_get_state, T_transport_any, T_kill, T_bogus}

HostSerialRequest ==
    \E serial \in HostSerials, inner \in HostSerialInners :
        HostRequest(T_host_serial \o serial \o <<COLON>> \o inner)

\* a request without the "host:" prefix: a short one, the longest whose FAIL
\* payload still has a four-digit length, one byte more, and the longest
HostOtherRequest ==
    \E n \in {1, MAX_REQUEST - Len(T_unsupported_request),
              MAX_REQUEST - Len(T_unsupported_request) + 1, MAX_REQUEST} :
        HostRequest(Junk(n))

MaxHostPackets == 2      \* packets read in transport mode

\* transport mode: ADBTransportSession(self.conn, self.device).run() reads
\* the next bytes of the connection as a packet and dispatches it
HostTransportPacket ==
    /\ hostLoop = "transport"
    /\ Len(inLog) < MaxHostPackets
    /\ \E packet \in { Packet("CNXN", ADB_PROTOCOL_VERSION, DEFAULT_MAX_PAYLOAD, <<>>),
                        Packet("OPEN", 7, 0, T_shell \o T_echo_hi \o <<NUL>>) } :
          Deliver(packet)

\* transport mode: transport.run() returns at the end of the connection, and
\* so does the run() of the host session
HostTransportEof ==
    /\ hostLoop = "transport"
    /\ loop = "running"
    /\ loop' = "ended"
    /\ hostLoop' = "ended"
    /\ UNCHANGED <<max_payload, streams_by_local, streams_by_remote, next_remote_id,
                   active, streams, loopExc, broken, filesystem, log_cursor, sent, sendLog,
                   inLog, alive, transport_started, forwarded_ports, hostSent, hostLog,
                   codecVars, otherVars>>

HostNext ==
    \/ HostCommandRequest
    \/ HostSerialRequest
    \/ HostOtherRequest
    \/ HostBadHeader
    \/ HostEof
    \/ HostTransportPacket
    \/ HostTransportEof

SpecHost == HostInit /\ [][HostNext]_vars

\* C10 (host text length framing): every reply the host session writes is
\* the tag OKAY or FAIL, then exactly 4 hexadecimal ASCII digits whose value
\* is the byte length of the payload that follows them.
C10_LengthFraming ==
    \A i \in DOMAIN hostSent :
        LET reply == hostSent[i]
        IN  /\ Len(reply) >= 8
            /\ SubSeq(reply, 1, 4) \in {T_OKAY, T_FAIL}
            /\ \A k \in 5..8 : IsHexDigit(reply[k])
            /\ HexValue(SubSeq(reply, 5, 8), 0) = Len(reply) - 8

\* C10 holds of every reply whose payload is shorter than 65536 bytes
C10_LengthFramingShort ==
    \A i \in DOMAIN hostSent :
        LET reply == hostSent[i]
        IN  Len(reply) <= 8 + MAX_REQUEST =>
                /\ Len(reply) >= 8
                /\ SubSeq(reply, 1, 4) \in {T_OKAY, T_FAIL}
                /\ \A k \in 5..8 : IsHexDigit(reply[k])
                /\ HexValue(SubSeq(reply, 5, 8), 0) = Len(reply) - 8

\* a reply whose payload is 65535 bytes long has been written
C10_LongestFramed ==
    \E i \in DOMAIN hostSent : Len(hostSent[i]) = 8 + MAX_REQUEST

-----------------------------------------------------------------------------
(* The handshake of ADBSession: src/src/cto/adb_session.py                  *)

MaxHandshakePackets == 4     \* packets the session reads from its transport

ADB_MAX_PAYLOAD == 4096      \* the max payload ADBSession advertises

T_device_cnxn ==  \* 'device::ro.serialno=unit-serial;ro.adb.secure=0;features=cmd,ls_v2,shell_v2'
    <<100, 101, 118, 105, 99, 101, 58, 58, 114, 111, 46, 115, 101, 114,
      105, 97, 108, 110, 111, 61, 117, 110, 105, 116, 45, 115, 101, 114,
      105, 97, 108, 59, 114, 111, 46, 97, 100, 98, 46, 115, 101, 99, 117,
      114, 101, 61, 48, 59, 102, 101, 97, 116, 117, 114, 101, 115, 61, 99,
      109, 100, 44, 108, 115, 95, 118, 50, 44, 115, 104, 101, 108, 108, 95,
      118, 50>>

T_token ==  \* 'token'
    <<116, 111, 107, 101, 110>>

\* build_cnxn_payload("device", banner, sorted(features)) for
\* DeviceInfo(serial="unit-serial", ro_adb_secure=0) and DEFAULT_FEATURES
build_cnxn_payload == T_device_cnxn

\* the fields of the ADBSession of the current state
HandshakeCur ==
    [max_payload |-> session_max_payload, connected |-> connected,
     outgoing |-> outgoing]

\* transport.write_packet(pkt)
write_packet(s, pkt) == [s EXCEPT !.outgoing = Append(@, pkt)]

\* A plausible slip in perform_handshake: "their_max = pkt.arg1" without the
\* fallback for a peer advertising zero.
perform_handshake_nofallback(s, pkt) ==
    LET their_max == pkt.arg1
        s1 == [s EXCEPT !.max_payload = Min(their_max, ADB_MAX_PAYLOAD)]
        reply == Packet("CNXN", ADB_PROTOCOL_VERSION, s1.max_payload, build_cnxn_payload)
    IN  [write_packet(s1, reply) EXCEPT !.connected = TRUE]

\* ADBSession.perform_handshake from the CNXN on: negotiate, reply, connected
perform_handshake(s, pkt) ==
    LET their_max == IF pkt.arg1 # 0 THEN pkt.arg1 ELSE ADB_MAX_PAYLOAD
        s1 == [s EXCEPT !.max_payload = Min(their_max, ADB_MAX_PAYLOAD)]
        reply == Packet("CNXN", ADB_PROTOCOL_VERSION, s1.max_payload, build_cnxn_payload)
    IN  [write_packet(s1, reply) EXCEPT !.connected = TRUE]

\* ADBSession.__init__, run() about to call perform_handshake
HandshakeInit ==
    /\ handshakePc = "handshake"
    /\ session_max_payload = ADB_MAX_PAYLOAD
    /\ connected = FALSE
    /\ incoming = <<>>
    /\ outgoing = <<>>
    /\ WriterIdle
    /\ ProtocolIdle
    /\ CodecIdle
    /\ HostIdle
    /\ TransportInit(EmptyFs)

\* the record of a packet read: the packet, the loop that read it and the
\* number of packets written before it
HandshakeEntry(pkt) ==
    [command |-> pkt.command, arg0 |-> pkt.arg0, arg1 |-> pkt.arg1,
     payload |-> pkt.payload, by |-> handshakePc, outBefore |-> Len(outgoing)]

HandshakeCommit(s, pkt, pc) ==
    /\ session_max_payload' = s.max_payload
    /\ connected' = s.connected
    /\ outgoing' = s.outgoing
    /\ incoming' = Append(incoming, HandshakeEntry(pkt))
    /\ handshakePc' = pc
    /\ UNCHANGED <<codecVars, transportVars, hostVars, writerVars, protocolVars>>

\* the loop of perform_handshake reads one packet: CNXN ends the loop, AUTH
\* and every other packet are ignored
HandshakeRead(pkt) ==
    /\ handshakePc = "handshake"
    /\ Len(incoming) < MaxHandshakePackets
    /\ IF pkt.command = "CNXN"
       THEN HandshakeCommit(perform_handshake(HandshakeCur, pkt), pkt, "run")
       ELSE HandshakeCommit(HandshakeCur, pkt, "handshake")

\* the loop of ADBSession.run reads one packet: OPEN is answered with
\* OKAY(1, arg0), CNXN calls perform_handshake again, the rest is ignored
SessionRead(pkt) ==
    /\ handshakePc = "run"
    /\ Len(incoming) < MaxHandshakePackets
    /\ IF pkt.command = "OPEN"
       THEN HandshakeCommit(write_packet(HandshakeCur, Packet("OKAY", 1, pkt.arg0, <<>>)),
                            pkt, "run")
       ELSE IF pkt.command = "CNXN"
       THEN HandshakeCommit(HandshakeCur, pkt, "handshake")
       ELSE HandshakeCommit(HandshakeCur, pkt, "run")

\* what a peer advertises to ADBSession in CNXN.arg1
HandshakeMaxPayloads == {0, 1, 1024, ADB_MAX_PAYLOAD, ADB_MAX_PAYLOAD + 1, 1048576}

HandshakeCnxn ==
    \E m \in HandshakeMaxPayloads :
        HandshakeRead(Packet("CNXN", ADB_PROTOCOL_VERSION, m, <<>>))

HandshakeAuth == HandshakeRead(Packet("AUTH", 1, 0, T_token))

HandshakeOther ==
    \E c \in {"OPEN", "WRTE", "CLSE", "OKAY"} : HandshakeRead(Packet(c, 7, 0, <<>>))

SessionOpen == SessionRead(Packet("OPEN", 7, 0, T_shell \o <<NUL>>))

SessionCnxn ==
    \E m \in HandshakeMaxPayloads :
        SessionRead(Packet("CNXN", ADB_PROTOCOL_VERSION, m, <<>>))

SessionOther ==
    \E c \in {"AUTH", "OKAY", "WRTE", "CLSE", "SYNC"} : SessionRead(Packet(c, 7, 1, <<>>))

\* read_packet raises IncompleteReadError: the peer disconnected
SessionEof ==
    /\ handshakePc \in {"handshake", "run"}
    /\ handshakePc' = "closed"
    /\ UNCHANGED <<session_max_payload, connected, incoming, outgoing>>
    /\ UNCHANGED <<codecVars, transportVars, hostVars, writerVars, protocolVars>>

HandshakeNext ==
    \/ HandshakeCnxn
    \/ HandshakeAuth
    \/ HandshakeOther
    \/ SessionOpen
    \/ SessionCnxn
    \/ SessionOther
    \/ SessionEof

SpecHandshake == HandshakeInit /\ [][HandshakeNext]_vars

\* the packet perform_handshake has just read, and the last packet written
LastRead == incoming'[Len(incoming')]
LastWritten == outgoing'[Len(outgoing')]

\* C13 (ADBSession negotiation): the step in which perform_handshake reads a
\* CNXN writes exactly one packet, a CNXN whose arg1 is greater than 0 and at
\* most ADB_MAX_PAYLOAD, and equal to the peer's advertised max payload when
\* that lies between 1 and ADB_MAX_PAYLOAD.
C13_HandshakeMaxPayload ==
    [][ (incoming' # incoming /\ LastRead.by = "handshake" /\ LastRead.command = "CNXN") =>
            /\ Len(outgoing') = Len(outgoing) + 1
            /\ LastWritten.command = "CNXN"
            /\ LastWritten.arg1 > 0
            /\ LastWritten.arg1 <= ADB_MAX_PAYLOAD
            /\ (LastRead.arg1 \in 1..ADB_MAX_PAYLOAD => LastWritten.arg1 = LastRead.arg1)
      ]_vars

\* perform_handshake has answered a CNXN advertising 0 and one advertising a
\* value in range
C13_Witness ==
    \E i, j \in DOMAIN incoming :
        /\ \A n \in {i, j} : incoming[n].by = "handshake" /\ incoming[n].command = "CNXN"
        /\ incoming[i].arg1 = 0
        /\ outgoing[incoming[i].outBefore + 1].arg1 = ADB_MAX_PAYLOAD
        /\ incoming[j].arg1 = 1024
        /\ outgoing[incoming[j].outBefore + 1].arg1 = 1024

\* C12 (handshake AUTH bypass) for ADBTransportSession: the step that handles
\* an AUTH packet before any CNXN has arrived writes nothing; the step that
\* handles a CNXN writes exactly one packet, a CNXN; no packet the session
\* writes is an AUTH.
C12_AuthBypass ==
    [][ /\ (/\ inLog' # inLog
            /\ LastIn.command = "AUTH"
            /\ \A i \in DOMAIN inLog : inLog[i].command # "CNXN") => sent' = sent
        /\ (inLog' # inLog /\ LastIn.command = "CNXN") =>
              /\ Len(sent') = Len(sent) + 1
              /\ sent'[Len(sent')].command = "CNXN"
        /\ \A i \in DOMAIN sent' : sent'[i].command # "AUTH" ]_vars

\* the same statement for ADBSession.perform_handshake: an AUTH read by the
\* handshake loop is followed by no write, the CNXN by exactly one CNXN, and
\* no AUTH is ever written
C12_HandshakeDiscardsAuth ==
    [][ /\ (/\ incoming' # incoming
            /\ LastRead.by = "handshake"
            /\ LastRead.command = "AUTH") => outgoing' = outgoing
        /\ (incoming' # incoming /\ LastRead.by = "handshake" /\ LastRead.command = "CNXN") =>
              /\ Len(outgoing') = Len(outgoing) + 1
              /\ LastWritten.command = "CNXN"
        /\ \A i \in DOMAIN outgoing' : outgoing'[i].command # "AUTH" ]_vars

\* ADBSession has read an AUTH and then the CNXN, and has written one packet
C12_AuthThenCnxn ==
    /\ Len(incoming) = 2
    /\ incoming[1].command = "AUTH"
    /\ incoming[2].command = "CNXN"
    /\ Len(outgoing) = 1
    /\ outgoing[1].command = "CNXN"

-----------------------------------------------------------------------------
(* Properties of the shell streams                                         *)

\* the packets written in the step
Written == SubSeq(sent', Len(sent) + 1, Len(sent'))

\* the command of a one-shot OPEN: what follows "shell:" (non-empty) or
\* "exec:" in the service string, or None
OneShotCommand(payload) ==
    LET service == RStripNul(payload)
    IN  IF StartsWith(service, T_shell) /\ Len(service) > Len(T_shell)
        THEN SubSeq(service, Len(T_shell) + 1, Len(service))
        ELSE IF StartsWith(service, T_exec)
        THEN SubSeq(service, Len(T_exec) + 1, Len(service))
        ELSE None

\* the step wrote OKAY(server id, peer id), then WRTE packets for that stream
\* carrying `output`, then CLSE(server id, peer id), and left the stream in
\* neither table
OneShotReply(output) ==
    LET ps == Written
        n == Len(ps)
        local == next_remote_id
        R == LastIn.arg0
    IN  /\ n >= 2
        /\ ps[1].command = "OKAY" /\ ps[1].arg0 = local /\ ps[1].arg1 = R
        /\ \A k \in 2..(n - 1) :
              ps[k].command = "WRTE" /\ ps[k].arg0 = local /\ ps[k].arg1 = R
        /\ Concat([k \in 1..(n - 2) |-> ps[k + 1].payload]) = output
        /\ ps[n].command = "CLSE" /\ ps[n].arg0 = local /\ ps[n].arg1 = R
        /\ R \notin DOMAIN streams_by_local'
        /\ local \notin DOMAIN streams_by_remote'

\* C15 (one-shot shell): the step that handles OPEN of shell:<cmd> with a
\* non-empty <cmd>, or of exec:<cmd>, from peer stream id R writes OKAY(local,
\* R), then WRTE packets whose payloads are the command's stdout followed by
\* its stderr, byte for byte (no LF to CR-LF translation), then CLSE(local, R),
\* and the stream is in the stream table no longer.
C15_OneShotShell ==
    [][ (/\ inLog' # inLog
         /\ LastIn.command = "OPEN"
         /\ OneShotCommand(LastIn.payload) # None) =>
            OneShotReply(as_text(execute(OneShotCommand(LastIn.payload)))) ]_vars

\* what the code does in a session with a positive max-payload: the same
\* sequence, with every LF of the output sent as CR LF
C15_OneShotShellCrLf ==
    [][ (/\ inLog' # inLog
         /\ LastIn.command = "OPEN"
         /\ OneShotCommand(LastIn.payload) # None
         /\ max_payload > 0) =>
            OneShotReply(CrLf(as_text(execute(OneShotCommand(LastIn.payload))))) ]_vars

\* a one-shot "echo hi" has been answered with OKAY, WRTE("hi\r\n"), CLSE
C15_OneShotSeen ==
    \E i \in DOMAIN inLog :
        /\ inLog[i].command = "OPEN"
        /\ OneShotCommand(inLog[i].payload) = T_echo_hi
        /\ Len(ReplyPackets(i)) = 3
        /\ ReplyPackets(i)[1].command = "OKAY"
        /\ ReplyPackets(i)[2].command = "WRTE"
        /\ ReplyPackets(i)[2].payload = <<104, 105, CR, LF>>
        /\ ReplyPackets(i)[3].command = "CLSE"

\* the text after the last 0x03 of s (s itself when it has none)
RECURSIVE AfterCtrlC(_)
AfterCtrlC(s) ==
    IF ~Contains(s, CTRL_C) THEN s
    ELSE AfterCtrlC(Tail(s))

\* the bytes of the WRTE packets written in the step, concatenated
WrittenData ==
    Concat(Payloads(SelectSeq(Written, LAMBDA p : p.command = "WRTE")))

\* the step handles a WRTE for an open interactive shell stream
InteractiveWrite ==
    /\ inLog' # inLog
    /\ LastIn.command = "WRTE"
    /\ LastIn.target # 0
    /\ streams[LastIn.target].kind = "shell"
    /\ streams[LastIn.target].interactive
    /\ ~streams[LastIn.target].closed

\* the step handles a WRTE that ends with 0x03 after a partial line
CtrlCStep ==
    /\ InteractiveWrite
    /\ Contains(LastIn.payload, CTRL_C)
    /\ \A c \in {CR, LF, CTRL_D} : ~Contains(LastIn.payload, c)

\* the step handles a WRTE carrying one line, the previous inbound packet
\* having been a WRTE with 0x03 for the same stream
LineAfterCtrlCStep ==
    /\ InteractiveWrite
    /\ inLog # <<>>
    /\ inLog[Len(inLog)].command = "WRTE"
    /\ inLog[Len(inLog)].target = LastIn.target
    /\ Contains(inLog[Len(inLog)].payload, CTRL_C)
    /\ \A c \in {CR, LF, CTRL_D} : ~Contains(inLog[Len(inLog)].payload, c)
    /\ LastIn.payload # <<>>
    /\ LastIn.payload[Len(LastIn.payload)] = LF
    /\ \A c \in {CR, CTRL_C, CTRL_D} : ~Contains(LastIn.payload, c)

\* what the stream answers to the line typed after the 0x03: the output of
\* exactly that text, then the prompt
LineAfterCtrlCReply ==
    LET typed == AfterCtrlC(inLog[Len(inLog)].payload)
                    \o SubSeq(LastIn.payload, 1, Len(LastIn.payload) - 1)
        command == Strip(typed)
        stream == streams[LastIn.target]
    IN  (command # <<>> /\ command # T_exit) =>
            WrittenData = CrLf(as_text(execute(command))) \o prompt(stream)

\* what the 0x03 does: the buffer holds only what was typed after it, the
\* stream writes "^C\r\n" and the prompt, stays open and registered, and run()
\* goes on
CtrlCReply ==
    LET rid == LastIn.target
    IN  /\ streams'[rid].input_buffer = AfterCtrlC(LastIn.payload)
        /\ WrittenData = T_ctrl_c \o prompt(streams[rid])
        /\ ~streams'[rid].closed
        /\ LastIn.arg0 \in DOMAIN streams_by_local'
        /\ rid \in DOMAIN streams_by_remote'
        /\ loop' = "running"

\* C16 (interactive shell Ctrl-C): the step in which an interactive shell
\* stream receives 0x03 discards the partly typed line, writes "^C\r\n"
\* followed by the prompt and leaves the stream open; the line submitted next
\* executes exactly the text typed after the 0x03.
C16_CtrlC ==
    [][ /\ CtrlCStep => CtrlCReply
        /\ LineAfterCtrlCStep => LineAfterCtrlCReply ]_vars

\* C16 holds of every step taken with a positive max-payload
C16_CtrlCPositive ==
    [][ max_payload > 0 =>
            /\ CtrlCStep => CtrlCReply
            /\ LineAfterCtrlCStep => LineAfterCtrlCReply ]_vars

\* "abc" and 0x03 were typed, then "echo hi": the answer to the line is
\* "hi\r\n" and the prompt
C16_CtrlCThenLine ==
    \E i \in DOMAIN inLog :
        /\ i + 1 \in DOMAIN inLog
        /\ inLog[i].command = "WRTE" /\ inLog[i].target # 0
        /\ inLog[i].payload = T_abc \o <<CTRL_C>>
        /\ inLog[i + 1].command = "WRTE" /\ inLog[i + 1].target = inLog[i].target
        /\ inLog[i + 1].payload = T_echo_hi \o <<LF>>
        /\ Concat(Payloads(SelectSeq(ReplyPackets(i + 1), LAMBDA p : p.command = "WRTE")))
              = <<104, 105, CR, LF>> \o prompt(streams[inLog[i].target])

-----------------------------------------------------------------------------
(* A session that pushes on one sync stream and pulls on a later one       *)

MaxPushPullOps == 6      \* packets the peer sends after the first OPEN

\* the peer's id for the second sync stream
PullPeerId == CHOOSE id \in PeerIds : id # SyncPeerId

PushPullInit ==
    /\ \E m \in PeerMaxPayloads :
          LET s == SyncSession(create_from_config(EmptyFs, SyncConfig), m)
          IN  StateIs(s.t, s.log)
    /\ CodecIdle
    /\ HostIdle
    /\ OtherIdle

PushPullDeliver(packet) ==
    /\ Len(inLog) < 2 + MaxPushPullOps
    /\ Deliver(packet)

\* the peer writes one sub-message to the stream it knows as `id`
PushPullWrite(id, tag, payload) ==
    /\ id \in DOMAIN streams_by_local
    /\ PushPullDeliver(Packet("WRTE", id, streams_by_local[id], SyncMsg(tag, payload)))

PushSend ==
    \E spec \in { T_path_p \o <<COMMA>> \o T_mode_600, T_path_n \o <<COMMA>> \o T_mode_644 } :
        PushPullWrite(SyncPeerId, T_SEND, spec)
PushData == \E data \in {T_ab, T_c} : PushPullWrite(SyncPeerId, T_DATA, data)
PushDone == PushPullWrite(SyncPeerId, T_DONE, <<>>)

\* the peer sends CNXN again, once: the max-payload is negotiated anew
PushPullCnxn ==
    /\ \A i \in 2..Len(inLog) : inLog[i].command # "CNXN"
    /\ \E m \in PeerMaxPayloads :
          PushPullDeliver(Packet("CNXN", ADB_PROTOCOL_VERSION, m, <<>>))

\* the peer opens the second sync stream
PullOpen ==
    /\ PullPeerId \notin DOMAIN streams_by_local
    /\ PushPullDeliver(Packet("OPEN", PullPeerId, 0, T_sync \o <<NUL>>))

PullRecv == \E path \in {T_path_p, T_path_n} : PushPullWrite(PullPeerId, T_RECV, path)

PushPullNext ==
    \/ PushSend
    \/ PushData
    \/ PushDone
    \/ PushPullCnxn
    \/ PullOpen
    \/ PullRecv

SpecPushPull == PushPullInit /\ [][PushPullNext]_vars

\* the inbound packet with which the stream with server id rid was opened:
\* the rid-th OPEN (every OPEN allocates one id)
OpenIndex(log, rid) ==
    CHOOSE i \in DOMAIN log :
        /\ log[i].command = "OPEN"
        /\ Cardinality({j \in 1..i : log[j].command = "OPEN"}) = rid

\* inbound packet d is the DONE that committed an upload to `path`: the stream
\* answered it with OKAY, and the last SEND to that stream before it named path
CommittedPush(log, d, path) ==
    LET r == log[d].target
    IN  /\ r # 0
        /\ SubMsgAt(log, d, r, T_DONE)
        /\ Responses(sendLog, d, d) = <<SyncMsg(T_OKAY, <<>>)>>
        /\ \E s \in 1..(d - 1) :
              /\ SubMsgAt(log, s, r, T_SEND)
              /\ \A j \in (s + 1)..(d - 1) : ~SubMsgAt(log, j, r, T_SEND)
              /\ SendPath(SubMsgBody(log[s].payload)) = path

\* the bytes of the upload that DONE number d committed: the DATA payloads
\* the stream got since its last SEND, in order
PushContent(log, d) ==
    LET r == log[d].target
        s == CHOOSE i \in 1..(d - 1) :
                /\ SubMsgAt(log, i, r, T_SEND)
                /\ \A j \in (i + 1)..(d - 1) : ~SubMsgAt(log, j, r, T_SEND)
        between == SubSeq(log, s + 1, d - 1)
        datas == SelectSeq(between, LAMBDA e : e.command = "WRTE" /\ e.target = r
                                               /\ IsSubMsg(e.payload, T_DATA))
    IN  Concat([i \in DOMAIN datas |-> SubMsgBody(datas[i].payload)])

\* rs is DATA sub-messages carrying `content`, followed by one DONE
IsDataThenDone(rs, content) ==
    /\ Len(rs) >= 1
    /\ rs[Len(rs)] = SyncMsg(T_DONE, <<>>)
    /\ \A i \in 1..(Len(rs) - 1) : IsSubMsg(rs[i], T_DATA)
    /\ Concat([i \in 1..(Len(rs) - 1) |-> SubMsgBody(rs[i])]) = content

\* the step handles RECV(path) on the open sync stream rid, and d is the last
\* committed upload to path, made on another stream before rid was opened
PullAfterPush(rid, path, d) ==
    /\ inLog' # inLog
    /\ streams[rid].kind = "sync"
    /\ SubMsgAt(inLog', Len(inLog) + 1, rid, T_RECV)
    /\ path = SubMsgBody(inLog'[Len(inLog) + 1].payload)
    /\ d \in DOMAIN inLog
    /\ CommittedPush(inLog, d, path)
    /\ \A e \in (d + 1)..Len(inLog) : ~CommittedPush(inLog, e, path)
    /\ inLog[d].target # rid
    /\ OpenIndex(inLog, rid) > d

\* C17 (push then pull is the identity): RECV of a path on a sync stream
\* opened after an upload to that path was committed on another stream, with
\* no write to the path in between, makes the stream emit DATA sub-messages
\* whose payloads concatenated are the uploaded bytes, followed by DONE.
C17_PushPull ==
    [][ \A rid \in DOMAIN streams : \A path \in {T_path_p, T_path_n} :
          \A d \in DOMAIN inLog :
            PullAfterPush(rid, path, d) =>
                IsDataThenDone(Responses(sendLog', Len(inLog) + 1, Len(inLog) + 1),
                               PushContent(inLog, d)) ]_vars

\* C17 holds of every pull made with a positive max-payload
C17_PushPullPositive ==
    [][ \A rid \in DOMAIN streams : \A path \in {T_path_p, T_path_n} :
          \A d \in DOMAIN inLog :
            (PullAfterPush(rid, path, d) /\ max_payload > 0) =>
                IsDataThenDone(Responses(sendLog', Len(inLog) + 1, Len(inLog) + 1),
                               PushContent(inLog, d)) ]_vars

\* "ab" and "c" were pushed to the new path /n on the first stream and the
\* second stream, opened afterwards, has answered RECV with DATA("abc"), DONE
C17_PulledBack ==
    LET n == Len(inLog)
    IN  /\ n >= 3
        /\ inLog[n].command = "WRTE"
        /\ inLog[n].target # 0
        /\ IsSubMsg(inLog[n].payload, T_RECV)
        /\ SubMsgBody(inLog[n].payload) = T_path_n
        /\ \E d \in 1..(n - 2) :
              /\ CommittedPush(inLog, d, T_path_n)
              /\ PushContent(inLog, d) = T_ab \o T_c
              /\ OpenIndex(inLog, inLog[n].target) > d
        /\ Responses(sendLog, n, n) = <<SyncMsg(T_DATA, T_ab \o T_c), SyncMsg(T_DONE, <<>>)>>

-----------------------------------------------------------------------------
(* Properties of the end of a session and of failures inside it            *)

\* C18 (session termination closes all streams): once the packet loop of
\* run() has ended -- on EOF, on a write failure or on an exception -- every
\* stream the session created is closed, the producer of every logcat stream
\* has been told to stop, and both stream tables are empty.
C18_TerminationClosesStreams ==
    loop # "running" =>
        /\ streams_by_local = <<>>
        /\ streams_by_remote = <<>>
        /\ \A rid \in DOMAIN streams :
              /\ streams[rid].closed
              /\ streams[rid].kind = "logcat" => streams[rid].stop_event

\* run() has returned on EOF while a logcat stream was registered, and its
\* producer has pulled a chunk of lines since
C18_ProducerOutlivesLoop ==
    /\ loop = "ended"
    /\ \E rid \in DOMAIN streams :
          /\ rid \in DOMAIN streams_by_remote
          /\ streams[rid].kind = "logcat"
          /\ streams[rid].thread = "running"
          /\ streams[rid].pc = "send"
          /\ ~streams[rid].closed

\* C19 (error containment): the step that handles an inbound packet leaves
\* run() looping whatever happens inside the stream handler it calls, and
\* every stream other than the one the packet is for stays registered.
C19_ErrorContainment ==
    [][ inLog' # inLog =>
            /\ loop' = "running"
            /\ \A rid \in DOMAIN streams_by_remote :
                  rid # LastIn.target => rid \in DOMAIN streams_by_remote' ]_vars

\* in a session with a positive max-payload, QUIT and STAT arrived in one
\* buffer for a sync stream and the StreamClosed of the STAT reply ended run()
\* while another stream was registered
C19_ClosedStreamEndsLoop ==
    /\ loop = "crashed"
    /\ loopExc = "StreamClosed"
    /\ max_payload > 0
    /\ streams_by_remote # <<>>
    /\ inLog[Len(inLog)].command = "WRTE"
    /\ inLog[Len(inLog)].payload = SyncMsg(T_QUIT, <<>>) \o SyncMsg(T_STAT, T_nope_path)

-----------------------------------------------------------------------------
(* One connection written by the reader thread and a logcat producer       *)

MaxWrites == 2           \* _send_packet calls each thread makes

\* the thread of run() and the thread LogcatStream.start creates
WriterThreads == {"reader", "producer"}

\* what a thread passes to _send_packet: run() acknowledges a WRTE on the
\* logcat stream (server id 1, peer id 7), the producer sends a chunk of lines
WriterPacket(th) ==
    IF th = "reader" THEN Packet("OKAY", 1, 7, <<>>)
    ELSE Packet("WRTE", 1, 7,
                JoinWith(next_log_lines(0, LOG_LINES_PER_CHUNK), <<LF>>) \o <<LF>>)

\* len(packet.pack()): the 24-byte header and the payload
PackedLen(packet) == HEADER_SIZE + Len(packet.payload)

\* the byte counts one send() inside sendall may be accepted with, when
\* `rest` bytes are left: all of them, or a short count
SendCounts(rest) == {n \in {HEADER_SIZE, rest} : n <= rest}

WriterInit ==
    /\ wire = <<>>
    /\ writers = [th \in WriterThreads |->
                    [pc |-> "idle", calls |-> 0, len |-> 0, off |-> 0]]
    /\ HandshakeIdle
    /\ ProtocolIdle
    /\ CodecIdle
    /\ HostIdle
    /\ TransportInit(EmptyFs)

\* _send_packet: the thread packs its packet and enters conn.sendall; no lock
\* is taken
SendPacketBegin(th) ==
    /\ writers[th].pc = "idle"
    /\ writers[th].calls < MaxWrites
    /\ writers' = [writers EXCEPT ![th] =
                      [pc |-> "sendall", calls |-> @.calls + 1,
                       len |-> PackedLen(WriterPacket(th)), off |-> 0]]
    /\ UNCHANGED <<wire, codecVars, transportVars, hostVars, handshakeVars, protocolVars>>

\* one send() of the loop inside conn.sendall: the connection takes the next
\* n bytes of this thread's packet; sendall returns when none is left
SendallStep(th) ==
    /\ writers[th].pc = "sendall"
    /\ \E n \in SendCounts(writers[th].len - writers[th].off) :
          /\ wire' = Append(wire, [thread |-> th, call |-> writers[th].calls,
                                   from |-> writers[th].off + 1,
                                   to |-> writers[th].off + n])
          /\ writers' = [writers EXCEPT
                            ![th].off = @ + n,
                            ![th].pc = IF writers[th].off + n = writers[th].len
                                       THEN "idle" ELSE "sendall"]
    /\ UNCHANGED <<codecVars, transportVars, hostVars, handshakeVars, protocolVars>>

ReaderBegin == SendPacketBegin("reader")
ReaderSend == SendallStep("reader")
ProducerBegin == SendPacketBegin("producer")
ProducerSend == SendallStep("producer")

WriterNext ==
    \/ ReaderBegin
    \/ ReaderSend
    \/ ProducerBegin
    \/ ProducerSend

SpecWriter == WriterInit /\ [][WriterNext]_vars

\* C20 (serialised writer): on the connection the bytes of one packet are
\* contiguous: between two byte ranges of a packet there is no byte of a
\* packet written by another thread, so every packet, and every WRTE, is
\* emitted whole.
C20_SerialisedWriter ==
    \A i, j, k \in DOMAIN wire :
        (/\ i < j /\ j < k
         /\ wire[i].thread = wire[k].thread
         /\ wire[i].call = wire[k].call) =>
            /\ wire[j].thread = wire[i].thread
            /\ wire[j].call = wire[i].call

\* both threads have written a packet in full, and the WRTE of the producer
\* went out in more than one send()
C20_BothWrote ==
    /\ \A th \in WriterThreads : writers[th].calls >= 1 /\ writers[th].pc = "idle"
    /\ \E i \in DOMAIN wire :
          /\ wire[i].thread = "producer"
          /\ wire[i].from > 1
          /\ wire[i].to = PackedLen(WriterPacket("producer"))

-----------------------------------------------------------------------------
(* A session whose reader thread and logcat producer write packet by packet *)

MaxSegmentWrites == 1    \* inbound WRTE packets run() handles in this session

SegmentPeerId == 7       \* the peer's id of the interactive shell stream
SegmentLogcatPeerId == 9 \* the peer's id of the logcat stream

\* the max-payloads the peer negotiates: the replies are split, or are not
SegmentMaxPayloads == {8, DEFAULT_MAX_PAYLOAD}

\* the packets the peer sent first: CNXN, OPEN "shell:", OPEN "logcat"
SegmentPrefix(m) ==
    << Packet("CNXN", ADB_PROTOCOL_VERSION, m, <<>>),
       Packet("OPEN", SegmentPeerId, 0, T_shell \o <<NUL>>),
       Packet("OPEN", SegmentLogcatPeerId, 0, T_logcat \o <<NUL>>) >>

\* the session after run() dispatched the first n packets of ps
RECURSIVE DispatchAll(_, _, _)
DispatchAll(t, ps, n) ==
    IF n = 0 THEN t
    ELSE Dispatch([DispatchAll(t, ps, n - 1) EXCEPT !.cause = n], ps[n])

\* the log of the first n packets of ps
InLogOf(ps) ==
    [n \in DOMAIN ps |-> LogEntry(DispatchAll(Session(EmptyFs), ps, n - 1), ps[n])]

SegmentInit ==
    /\ \E m \in SegmentMaxPayloads :
          StateIs(DispatchAll(Session(EmptyFs), SegmentPrefix(m), 3),
                  InLogOf(SegmentPrefix(m)))
    /\ wire = <<>>
    /\ writers = [th \in WriterThreads |-> [queue |-> <<>>]]
    /\ HandshakeIdle
    /\ ProtocolIdle
    /\ CodecIdle
    /\ HostIdle

\* a thread enters a handler that takes the session to t: the packets the
\* handler passes to _send_packet, in order, are written one sendall at a
\* time; no lock is held from one _send_packet call to the next
ThreadBegin(th, t) ==
    /\ writers[th].queue = <<>>
    /\ writers' = [writers EXCEPT
                      ![th].queue = SubSeq(t.sent, Len(sent) + 1, Len(t.sent))]
    /\ Commit([t EXCEPT !.sent = sent])

\* the next _send_packet call of the thread: conn.sendall(packet.pack())
ThreadEmit(th) ==
    /\ writers[th].queue # <<>>
    /\ sent' = Append(sent, Head(writers[th].queue))
    /\ writers' = [writers EXCEPT ![th].queue = Tail(@)]
    /\ UNCHANGED <<max_payload, streams_by_local, streams_by_remote, next_remote_id,
                   active, streams, loop, loopExc, broken, filesystem, log_cursor,
                   sendLog, inLog, wire, codecVars, hostVars, handshakeVars, protocolVars>>

\* run() reads a WRTE for the shell stream and handles it
SegReaderBegin ==
    /\ loop = "running"
    /\ active
    /\ Len(inLog) < Len(SegmentPrefix(0)) + MaxSegmentWrites
    /\ \E data \in {T_echo_hi \o <<LF>>, T_abc \o <<CTRL_C>>} :
          LET packet == Packet("WRTE", SegmentPeerId,
                               streams_by_local[SegmentPeerId], data)
          IN  /\ ThreadBegin("reader", Dispatch(Cur(Len(inLog) + 1), packet))
              /\ inLog' = Append(inLog, LogEntry(Cur(0), packet))
    /\ UNCHANGED <<loop, loopExc, broken, wire, codecVars, hostVars, handshakeVars, protocolVars>>

SegReaderEmit == ThreadEmit("reader")

\* the producer of the logcat stream pulls its next lines
SegProducerPull ==
    /\ writers["producer"].queue = <<>>
    /\ LogcatPull(streams_by_local[SegmentLogcatPeerId])

\* the producer calls self.send(payload)
SegProducerBegin ==
    LET rid == streams_by_local[SegmentLogcatPeerId]
    IN  /\ streams[rid].thread = "running"
        /\ streams[rid].pc = "send"
        /\ LET t == send(Cur(0), rid, streams[rid].pending)
           IN  ThreadBegin("producer",
                           [t EXCEPT !.streams[rid].pending = <<>>,
                                     !.streams[rid].pc = "top"])
        /\ UNCHANGED <<loop, loopExc, broken, inLog, wire, codecVars, hostVars,
                       handshakeVars, protocolVars>>

SegProducerEmit == ThreadEmit("producer")

SegmentNext ==
    \/ SegReaderBegin
    \/ SegReaderEmit
    \/ SegProducerPull
    \/ SegProducerBegin
    \/ SegProducerEmit

SpecSegment == SegmentInit /\ [][SegmentNext]_vars

\* C21 (no interleaving inside a segmented send): between two WRTE chunks of
\* one send_stream_data call, every packet on the connection belongs to the
\* stream of that call.
C21_NoInterleaving ==
    \A i, j, k \in DOMAIN sent :
        (/\ i < j /\ j < k
         /\ sent[i].call # 0
         /\ sent[i].call = sent[k].call) =>
            sent[j].arg0 = sent[i].arg0

\* the chunks of one call are themselves in order: the packets of the call,
\* as they are on the connection, concatenate to the data of the call
C21_ChunksInOrder ==
    \A call \in DOMAIN sendLog :
        (/\ sendLog[call].registered
         /\ \A th \in WriterThreads :
               \A p \in DOMAIN writers[th].queue : writers[th].queue[p].call # call) =>
            Concat(Payloads(CallPackets(call))) = sendLog[call].data

\* a reply of the shell stream and a chunk of log lines were both split, and
\* both threads have written all their packets
C21_BothSplit ==
    /\ \A th \in WriterThreads : writers[th].queue = <<>>
    /\ \E c, d \in DOMAIN sendLog :
          /\ sendLog[c].cause > Len(SegmentPrefix(0))
          /\ sendLog[d].cause = 0
          /\ Len(CallPackets(c)) > 1
          /\ Len(CallPackets(d)) > 1

-----------------------------------------------------------------------------
(* Stream ids                                                              *)

\* the inbound OPEN packets among the first i packets of the session
OpensUpTo(i) == Cardinality({j \in 1..i : inLog[j].command = "OPEN"})

\* C22 (stream id allocation): the counter starts at 1 and never decreases,
\* and the n-th OPEN of a session is answered (OKAY or CLSE) with server id
\* n, whatever became of the streams opened before it; so no two streams of
\* a session, live or closed, receive the same server-assigned id.
C22_IdAllocation ==
    /\ next_remote_id = OpensUpTo(Len(inLog)) + 1
    /\ \A i \in DOMAIN inLog :
          inLog[i].command = "OPEN" =>
              /\ ReplyPackets(i) # <<>>
              /\ ReplyPackets(i)[1].command \in {"OKAY", "CLSE"}
              /\ ReplyPackets(i)[1].arg0 = OpensUpTo(i)
              /\ ReplyPackets(i)[1].arg1 = inLog[i].arg0
    /\ \A rid \in DOMAIN streams :
          /\ streams[rid].remote_id = rid
          /\ rid \in 1..(next_remote_id - 1)

\* the counter only increases, by one for every OPEN handled
C22_CounterIncreases ==
    [][next_remote_id' \in {next_remote_id, next_remote_id + 1}]_vars

\* a second stream was opened on the peer id of a stream already closed: it
\* received id 2 although id 1 was free again
C22_SecondAfterClose ==
    /\ Len(inLog) = 3
    /\ inLog[1].command = "OPEN" /\ inLog[2].command = "CLSE" /\ inLog[3].command = "OPEN"
    /\ inLog[1].arg0 = inLog[2].arg0 /\ inLog[3].arg0 = inLog[1].arg0
    /\ inLog[2].target = 1
    /\ DOMAIN streams_by_remote = {2}
    /\ DOMAIN streams = {1, 2}
    /\ streams[1].closed

-----------------------------------------------------------------------------
(* Properties of the host session                                          *)

\* the host commands that switch the connection to transport mode
TransportCommands == {T_transport, T_transport_any, T_transport_usb, T_transport_local}

\* this step read a host request: the request
HostRead == hostLog'[Len(hostLog')]

\* C23 (host-to-transport mode switch): a request host:<c> with c one of
\* transport, transport-any, transport-usb, transport-local is answered with
\* OKAY and an empty payload, and from then on the connection is in transport
\* mode: no further host request is read and no host-text reply is written,
\* while packets are dispatched, up to the end of the connection.
C23_ModeSwitch ==
    [][/\ (hostLog' # hostLog /\ \E c \in TransportCommands : HostRead = T_host \o c) =>
            /\ hostSent' = Append(hostSent, T_OKAY \o Hex04(0))
            /\ transport_started'
            /\ hostLoop' = "transport"
       /\ transport_started =>
            /\ hostLog' = hostLog
            /\ hostSent' = hostSent
            /\ transport_started'
            /\ hostLoop \in {"transport", "ended"}
            /\ hostLoop' \in {"transport", "ended"}
     ]_vars

\* after the request host:transport-usb, answered OKAY, the bytes of the
\* connection were read as a CNXN packet and an OPEN packet
C23_PacketsAfterSwitch ==
    /\ hostLog = <<T_host \o T_version, T_host \o T_transport_usb>>
    /\ Len(hostSent) = 2
    /\ hostLoop = "transport"
    /\ Len(inLog) = 2
    /\ inLog[1].command = "CNXN"
    /\ inLog[2].command = "OPEN"


\* the host session after this step
HostAfter ==
    [alive |-> alive', transport_started |-> transport_started',
     forwarded_ports |-> forwarded_ports', sent |-> hostSent', raised |-> None]

\* C24 (host-serial routing): a request host-serial:<serial>:<inner> with the
\* configured serial leaves the session as host:<inner> would (same reply,
\* same state change); with another serial it is answered with one FAIL and
\* the session state is unchanged.
C24_HostSerialRouting ==
    [][\A serial \in HostSerials, inner \in HostSerialInners :
          (/\ hostLog' # hostLog
           /\ HostRead = T_host_serial \o serial \o <<COLON>> \o inner) =>
              IF serial = T_serial
              THEN HostAfter = HandleOne(HostCur, T_host \o inner)
              ELSE /\ Len(hostSent') = Len(hostSent) + 1
                   /\ StartsWith(hostSent'[Len(hostSent')], T_FAIL)
                   /\ UNCHANGED <<alive, transport_started, forwarded_ports>>
     ]_vars

\* the second half of C24 holds: a request that names another serial is
\* answered with one FAIL and changes nothing
C24_OtherSerialFails ==
    [][\A serial \in HostSerials \ {T_serial}, inner \in HostSerialInners :
          (/\ hostLog' # hostLog
           /\ HostRead = T_host_serial \o serial \o <<COLON>> \o inner) =>
              /\ Len(hostSent') = Len(hostSent) + 1
              /\ StartsWith(hostSent'[Len(hostSent')], T_FAIL)
              /\ UNCHANGED <<alive, transport_started, forwarded_ports>>
     ]_vars

\* what the code does with every host-serial: request: the serial it compares
\* is the empty text, and the reply is FAIL "Unknown serial "
C24_SerialNeverMatches ==
    [][\A serial \in HostSerials, inner \in HostSerialInners :
          (/\ hostLog' # hostLog
           /\ HostRead = T_host_serial \o serial \o <<COLON>> \o inner) =>
              /\ hostSent' = Append(hostSent, T_FAIL \o Hex04(Len(T_unknown_serial))
                                                 \o T_unknown_serial)
              /\ UNCHANGED <<alive, transport_started, forwarded_ports>>
     ]_vars

\* a request with the configured serial has been read and answered
C24_OwnSerialAsked ==
    /\ hostLog = <<T_host_serial \o T_serial \o <<COLON>> \o T_get_state>>
    /\ Len(hostSent) = 1


\* the host requests that are invalid once parsed: an unknown command, an
\* unsupported request prefix, a malformed forward spec
InvalidHostRequests ==
    { T_host \o T_bogus, Junk(1), T_host \o T_forward \o T_tcp_1 }

\* C25 (host-text errors are answered and survived): every step in which the
\* session meets an invalid request (one of InvalidHostRequests, or a length
\* header that is not hexadecimal) writes one FAIL reply and leaves the
\* session reading requests.
C25_HostErrorsSurvived ==
    [][/\ (hostLog' # hostLog /\ HostRead \in InvalidHostRequests) =>
            /\ Len(hostSent') = Len(hostSent) + 1
            /\ StartsWith(hostSent'[Len(hostSent')], T_FAIL)
            /\ hostLoop' = "running"
       \* no exception of _read_request leaves run() ("crashed")
       /\ hostLoop' # "crashed"
     ]_vars

\* C25 holds of the requests that are read in full: they are answered with
\* one FAIL, the state is unchanged and the session goes on
C25_ParsedErrorsSurvived ==
    [][(hostLog' # hostLog /\ HostRead \in InvalidHostRequests) =>
            /\ Len(hostSent') = Len(hostSent) + 1
            /\ StartsWith(hostSent'[Len(hostSent')], T_FAIL)
            /\ hostLoop' = "running"
            /\ UNCHANGED <<alive, transport_started, forwarded_ports>>
     ]_vars

\* a bad length header ended the session after an unknown command had been
\* answered with FAIL
C25_BadHeaderAfterFail ==
    /\ hostLoop = "crashed"
    /\ hostLog = <<T_host \o T_bogus>>
    /\ Len(hostSent) = 1
    /\ StartsWith(hostSent[1], T_FAIL)

-----------------------------------------------------------------------------
(* The banner of CNXN replies                                              *)

\* text `sub` occurs in text s
ContainsText(s, sub) ==
    \E i \in 1..(Len(s) - Len(sub) + 1) : SubSeq(s, i, i + Len(sub) - 1) = sub

\* the CNXN packets the session has written
CnxnReplies == SelectSeq(sent, LAMBDA p : p.command = "CNXN")

\* C26 (CNXN banner): the payload of every CNXN reply starts with
\* "device::", ends with a NUL byte, and contains ro.product.name=,
\* ro.product.model= and ro.serialno=<the configured serial>.
C26_CnxnBanner ==
    \A i \in DOMAIN CnxnReplies :
        LET payload == CnxnReplies[i].payload
        IN  /\ StartsWith(payload, T_device_prefix)
            /\ payload[Len(payload)] = NUL
            /\ ContainsText(payload, T_ro_product_name)
            /\ ContainsText(payload, T_ro_product_model)
            /\ ContainsText(payload, T_ro_serialno \o T_serial)

\* what holds of every CNXN reply: the prefix, the NUL, the product name and
\* the product model; neither ro.serialno nor the serial occurs in it
C26_BannerWithoutSerial ==
    \A i \in DOMAIN CnxnReplies :
        LET payload == CnxnReplies[i].payload
        IN  /\ StartsWith(payload, T_device_prefix)
            /\ payload[Len(payload)] = NUL
            /\ ContainsText(payload, T_ro_product_name \o T_mock)
            /\ ContainsText(payload, T_ro_product_model \o T_model)
            /\ ~ContainsText(payload, T_ro_serialno)
            /\ ~ContainsText(payload, T_serial)
            /\ payload = T_banner \o T_features \o <<NUL>>

\* the session has answered a CNXN and an AUTH, each with a CNXN reply
C26_TwoBanners ==
    /\ Len(CnxnReplies) = 2
    /\ \E i, j \in DOMAIN inLog : inLog[i].command = "CNXN" /\ inLog[j].command = "AUTH"

-----------------------------------------------------------------------------
(* Encoding long payloads                                                  *)
(* A long payload is held as a run: `len` bytes, all equal to `byte`.       *)

\* the bound of the codec specification: 2^20 bytes
EncodeLimit == Pow2(20)

Run(len, byte) == [len |-> len, byte |-> byte]

\* the bytes of a run
RunBytes(r) == [i \in 1..r.len |-> r.byte]

\* ADBPacket.checksum of a run: sum(data) & 0xFFFFFFFF is len * byte, which
\* is below 2^31 for the runs of LongRuns
checksum_run(r) == U32OfNat(r.len * r.byte)

\* ADBPacket.to_bytes of a packet whose payload is a run: the header that
\* struct.pack returns, followed by the payload; there is no other outcome
\* for a length below 2^32
to_bytes_run(p) ==
    [ok |-> TRUE,
     header |-> PackU32(p.command) \o PackU32(p.arg0) \o PackU32(p.arg1)
                    \o PackU32(U32OfNat(p.payload.len)) \o PackU32(checksum_run(p.payload))
                    \o PackU32(magic(p.command)),
     payload |-> p.payload]

\* the payloads encoded: empty, short, and around the bound
LongRuns ==
    { Run(n, b) : n \in {0, 1, MaxPayloadLen, EncodeLimit - 1, EncodeLimit,
                         EncodeLimit + 1, 2 * EncodeLimit},
                  b \in CodecBytes }

EncodeInit ==
    /\ codecPkt \in { ADBPacket(c, <<0, 1>>, <<0, 0>>, r) :
                        c \in CodecCommands, r \in LongRuns }
    /\ codecRaw = <<>>
    /\ codecFlip = -1
    /\ codecOut = NoResult
    /\ codecPc = "new"
    /\ TransportInit(EmptyFs)
    /\ HostIdle
    /\ OtherIdle

\* raw = pkt.to_bytes()
EncodeLong ==
    /\ codecPc = "new"
    /\ codecOut' = to_bytes_run(codecPkt)
    /\ codecPc' = "encoded"
    /\ UNCHANGED <<codecPkt, codecRaw, codecFlip, transportVars, hostVars, otherVars>>

EncodeNext == EncodeLong

SpecEncode == EncodeInit /\ [][EncodeNext]_vars

\* C27 (encode size bound): encoding fails and produces no bytes when the
\* payload is longer than 2^20 bytes, and succeeds for every payload of at
\* most 2^20 bytes.
C27_EncodeBound ==
    codecPc = "encoded" =>
        IF codecPkt.payload.len > EncodeLimit
        THEN ~codecOut.ok
        ELSE /\ codecOut.ok
             /\ Len(codecOut.header) = HEADER_SIZE
             /\ codecOut.payload = codecPkt.payload

\* what the code does: every payload is encoded, whatever its length, and
\* the length field of the header holds that length
C27_EncodeAlways ==
    codecPc = "encoded" =>
        /\ codecOut.ok
        /\ Len(codecOut.header) = HEADER_SIZE
        /\ UnpackU32(codecOut.header, 12) = U32OfNat(codecPkt.payload.len)
        /\ codecOut.payload = codecPkt.payload

\* the encoding of a run is the encoding of its bytes
C27_RunEncodingAgrees ==
    (codecPc = "encoded" /\ codecPkt.payload.len <= MaxPayloadLen) =>
        codecOut.header \o RunBytes(codecOut.payload)
            = to_bytes([codecPkt EXCEPT !.payload = RunBytes(codecPkt.payload)])

\* a payload of 2^20 + 1 bytes has been encoded
C27_OverLimitEncoded ==
    /\ codecPc = "encoded"
    /\ codecPkt.payload.len = EncodeLimit + 1
    /\ codecPkt.payload.byte = 255
    /\ codecOut.ok

-----------------------------------------------------------------------------
(* Gating by the handshake                                                 *)

\* the commands of stream traffic
StreamCommands == {"OKAY", "WRTE", "CLSE"}

\* C28 (handshake gating) for ADBTransportSession: every OKAY, WRTE or CLSE
\* the session writes comes after a CNXN reply it wrote, and a stream exists
\* only once a CNXN reply has been written.
C28_HandshakeGating ==
    /\ \A i \in DOMAIN sent :
          sent[i].command \in StreamCommands =>
              \E j \in 1..(i - 1) : sent[j].command = "CNXN"
    /\ streams # <<>> => \E j \in DOMAIN sent : sent[j].command = "CNXN"

\* the same statement for ADBSession: nothing is written before the CNXN
\* reply, and OPEN, WRTE, CLSE and OKAY read by the handshake loop are
\* followed by no write
C28_SessionGating ==
    /\ ~connected => outgoing = <<>>
    /\ outgoing # <<>> => outgoing[1].command = "CNXN"
    /\ \A i \in DOMAIN incoming :
          (incoming[i].by = "handshake" /\ incoming[i].command # "CNXN") =>
              \/ Len(outgoing) = incoming[i].outBefore
              \/ /\ i < Len(incoming)
                 /\ incoming[i + 1].outBefore = incoming[i].outBefore

\* the first packet of the session was an OPEN: it was answered with OKAY and
\* its stream is registered, and no CNXN has been read or written
C28_OpenBeforeCnxn ==
    /\ Len(inLog) = 2
    /\ inLog[1].command = "OPEN"
    /\ inLog[2].command = "WRTE"
    /\ sent[1].command = "OKAY"
    /\ streams_by_remote # <<>>
    /\ \A j \in DOMAIN sent : sent[j].command # "CNXN"
    /\ \E j \in DOMAIN sent : sent[j].command = "WRTE"

-----------------------------------------------------------------------------
(* Protocol violations of the peer                                         *)

\* this step handled an OPEN whose peer id was bound to a live stream
DuplicateOpenStep ==
    /\ inLog' # inLog
    /\ LastIn.command = "OPEN"
    /\ LastIn.target # 0

\* C29 (duplicate OPEN is discarded): the step that handles an OPEN whose
\* peer id is bound to a live stream writes nothing, creates no stream,
\* leaves both stream tables and the stream as they were and leaves the
\* session running.
C29_DuplicateOpenDiscarded ==
    [][DuplicateOpenStep =>
          /\ sent' = sent
          /\ streams' = streams
          /\ streams_by_local' = streams_by_local
          /\ streams_by_remote' = streams_by_remote
          /\ loop' = "running"
          /\ active' = active
      ]_vars

\* what the code does with such an OPEN: it is handled like any other OPEN;
\* a new id is allocated and answered, for a known service a second stream
\* is created and takes over the peer id, and the old stream stays open in
\* the table of server ids
C29_DuplicateOpenServed ==
    [][DuplicateOpenStep =>
          /\ next_remote_id' = next_remote_id + 1
          /\ Len(sent') > Len(sent)
          /\ sent'[Len(sent) + 1].command \in {"OKAY", "CLSE"}
          /\ sent'[Len(sent) + 1].arg0 = next_remote_id
          /\ (sent'[Len(sent) + 1].command = "OKAY" =>
                /\ next_remote_id \in DOMAIN streams'
                /\ streams'[next_remote_id].local_id = LastIn.arg0
                /\ (LastIn.arg0 \in DOMAIN streams_by_local' =>
                        streams_by_local'[LastIn.arg0] = next_remote_id))
          /\ LastIn.target \in DOMAIN streams_by_remote'
          /\ ~streams'[LastIn.target].closed
      ]_vars

\* two OPENs with the same peer id were handled: two streams are live, and
\* the peer id leads to the second one only
C29_TwoStreamsOneId ==
    /\ Len(inLog) = 2
    /\ inLog[1].command = "OPEN" /\ inLog[2].command = "OPEN"
    /\ inLog[1].arg0 = inLog[2].arg0
    /\ DOMAIN streams_by_remote = {1, 2}
    /\ DOMAIN streams_by_local = {inLog[1].arg0}
    /\ streams_by_local[inLog[1].arg0] = 2


\* this step handled a WRTE whose peer id is bound to no live stream
UnknownWriteStep ==
    /\ inLog' # inLog
    /\ LastIn.command = "WRTE"
    /\ LastIn.target = 0

\* C30 (WRTE for an unknown stream is dropped): the step that handles a WRTE
\* whose id is bound to no live stream writes no packet, hands no data to any
\* stream, leaves the streams, both stream tables, the id counter, the
\* max-payload and the file system unchanged, and leaves the session
\* running.
C30_UnknownWriteDropped ==
    [][UnknownWriteStep =>
          /\ sent' = sent
          /\ sendLog' = sendLog
          /\ streams' = streams
          /\ streams_by_local' = streams_by_local
          /\ streams_by_remote' = streams_by_remote
          /\ next_remote_id' = next_remote_id
          /\ max_payload' = max_payload
          /\ filesystem' = filesystem
          /\ active' = active
          /\ loop' = "running"
          /\ loopExc' = "none"
      ]_vars

\* a WRTE naming peer id 9 and the server id of a live stream was handled
\* while only peer id 7 was bound, and the session went on to serve a WRTE
\* for the live stream
C30_UnknownWriteSeen ==
    /\ Len(inLog) = 3
    /\ inLog[1].command = "OPEN"
    /\ inLog[2].command = "WRTE" /\ inLog[2].target = 0 /\ inLog[2].arg1 = 1
    /\ inLog[2].arg0 = 9
    /\ inLog[3].command = "WRTE" /\ inLog[3].target = 1
    /\ ReplyPackets(2) = <<>>
    /\ ReplyPackets(3) # <<>>
    /\ loop = "running"

-----------------------------------------------------------------------------
(* Closing streams                                                         *)

\* this step handled a CLSE of the peer for a live stream
PeerCloseStep ==
    /\ inLog' # inLog
    /\ LastIn.command = "CLSE"
    /\ LastIn.target # 0

\* C31 (peer CLSE closes exactly one stream): the step that handles a CLSE
\* for a live stream sets the closed flag of that stream, removes its entry
\* from both stream tables and writes exactly one packet, CLSE(server id,
\* peer id); the table entries and the state of every other stream are
\* unchanged.
C31_PeerCloseOneStream ==
    [][PeerCloseStep =>
          LET rid == LastIn.target
          IN  /\ streams'[rid].closed
              /\ streams_by_local' = Without(streams_by_local, LastIn.arg0)
              /\ streams_by_remote' = Without(streams_by_remote, rid)
              /\ Len(Written) = 1
              /\ Written[1].command = "CLSE"
              /\ Written[1].arg0 = rid
              /\ Written[1].arg1 = LastIn.arg0
              /\ Written[1].payload = <<>>
              /\ DOMAIN streams' = DOMAIN streams
              /\ \A other \in DOMAIN streams \ {rid} : streams'[other] = streams[other]
      ]_vars

\* a CLSE closed one of two live streams: the other is still in both tables
C31_OneOfTwoClosed ==
    /\ Len(inLog) = 3
    /\ inLog[1].command = "OPEN" /\ inLog[2].command = "OPEN"
    /\ inLog[1].arg0 # inLog[2].arg0
    /\ inLog[3].command = "CLSE" /\ inLog[3].target = 1
    /\ DOMAIN streams_by_remote = {2}
    /\ DOMAIN streams_by_local = {inLog[2].arg0}
    /\ streams[1].closed /\ ~streams[2].closed

-----------------------------------------------------------------------------
(* The SEND transaction of a sync stream                                   *)

\* among the sub-messages of log, a SEND with a "<path>,<mode>" payload was
\* written to stream rid and no DONE has followed it
SendInProgress(log, rid) ==
    \E i \in DOMAIN log :
        /\ SubMsgAt(log, i, rid, T_SEND)
        /\ Contains(SubMsgBody(log[i].payload), COMMA)
        /\ \A j \in (i + 1)..Len(log) : ~SubMsgAt(log, j, rid, T_DONE)

\* this step handed DATA or DONE to the open sync stream rid while no SEND
\* was in progress
StrayDataOrDone(rid) ==
    /\ inLog' # inLog
    /\ streams[rid].kind = "sync"
    /\ \/ SubMsgAt(inLog', Len(inLog) + 1, rid, T_DATA)
       \/ SubMsgAt(inLog', Len(inLog) + 1, rid, T_DONE)
    /\ ~SendInProgress(inLog, rid)

\* the step answered with one FAIL sub-message, changed no file and left the
\* stream open and served
AnsweredWithFail(rid) ==
    LET rs == Responses(sendLog', Len(inLog) + 1, Len(inLog) + 1)
    IN  /\ Len(rs) = 1
        /\ IsSubMsg(rs[1], T_FAIL)
        /\ filesystem' = filesystem
        /\ ~streams'[rid].closed
        /\ rid \in DOMAIN streams_by_remote'
        /\ loop' = "running"

\* C32 (sync transaction discipline): DATA or DONE handed to an open sync
\* stream while no SEND is in progress -- none since the stream was opened,
\* or none since the last DONE, successful or failed -- is answered with one
\* FAIL, changes no file and leaves the stream open for further
\* sub-messages.
C32_TransactionDiscipline ==
    [][\A rid \in DOMAIN streams : StrayDataOrDone(rid) => AnsweredWithFail(rid)]_vars

\* C32 holds of every step taken with a positive max-payload
C32_TransactionDisciplinePositive ==
    [][\A rid \in DOMAIN streams :
          (StrayDataOrDone(rid) /\ max_payload > 0) => AnsweredWithFail(rid)]_vars

\* after a committed upload and after a failed one, a DATA without a new SEND
\* was answered with FAIL
C32_DataAfterDone ==
    /\ max_payload > 0
    /\ Len(inLog) = 6
    /\ SubMsgAt(inLog, 3, 1, T_SEND)
    /\ SubMsgBody(inLog[3].payload) = T_path_d \o <<COMMA>> \o T_mode_644
    /\ SubMsgAt(inLog, 4, 1, T_DATA)
    /\ SubMsgAt(inLog, 5, 1, T_DONE)
    /\ IsSubMsg(Responses(sendLog, 5, 5)[1], T_FAIL)
    /\ SubMsgAt(inLog, 6, 1, T_DATA)
    /\ Responses(sendLog, 6, 6) = <<SyncMsg(T_FAIL, T_data_without_send)>>
    /\ loop = "running"

-----------------------------------------------------------------------------
(* A sync stream whose sub-messages arrive split over WRTE packets         *)

MaxFramingWrites == 3    \* WRTE packets the peer cuts its bytes into

\* the byte strings the peer writes: two queries; an upload; QUIT followed by
\* an upload
FramingSequences ==
    { SyncMsg(T_STAT, T_nope_path) \o SyncMsg(T_STAT, T_path_p),
      SyncMsg(T_SEND, T_path_n \o <<COMMA>> \o T_mode_644) \o SyncMsg(T_DATA, T_ab)
          \o SyncMsg(T_DONE, <<>>),
      SyncMsg(T_QUIT, <<>>) \o SyncMsg(T_SEND, T_path_n \o <<COMMA>> \o T_mode_644)
          \o SyncMsg(T_DONE, <<>>) }

\* the bytes the peer has written to the sync stream so far
Delivered ==
    Concat([i \in 1..(Len(inLog) - 2) |-> inLog[i + 2].payload])

\* the peer writes the next k bytes of its byte string in one WRTE
FramingWrite ==
    /\ Len(inLog) < 2 + MaxFramingWrites
    /\ \E B \in FramingSequences :
          /\ Len(Delivered) < Len(B)
          /\ SubSeq(B, 1, Len(Delivered)) = Delivered
          /\ \E k \in 1..(Len(B) - Len(Delivered)) :
                Deliver(Packet("WRTE", SyncPeerId,
                               IF SyncPeerId \in DOMAIN streams_by_local
                               THEN streams_by_local[SyncPeerId] ELSE 0,
                               SubSeq(B, Len(Delivered) + 1, Len(Delivered) + k)))

FramingNext == FramingWrite

SpecFraming == SyncInit /\ [][FramingNext]_vars

\* the session that received the bytes D in a single WRTE
OneWrite(D) ==
    LET s == SyncSession(create_from_config(EmptyFs, SyncConfig), max_payload)
    IN  IF D = <<>> THEN s.t
        ELSE Dispatch([s.t EXCEPT !.cause = 3], Packet("WRTE", SyncPeerId, 1, D))

\* the longest prefix of D that consists of whole sub-messages
RECURSIVE WholeUpTo(_, _)
WholeUpTo(D, n) ==
    IF Len(D) - n < SYNC_HEADER_SIZE THEN n
    ELSE LET total == SYNC_HEADER_SIZE + UnpackNat(D, n + 4)
         IN  IF Len(D) - n < total THEN n ELSE WholeUpTo(D, n + total)

WholePrefix(D) == SubSeq(D, 1, WholeUpTo(D, 0))

\* the sub-messages a session handed to its transport
Replies(log) == [i \in DOMAIN log |-> log[i].data]

\* the session shows what a single WRTE of the bytes D leads to: the same
\* replies and the same files, and no reply to a sub-message whose last byte
\* has not arrived
SameAsOneWrite(D) ==
    /\ Replies(sendLog) = Replies(OneWrite(D).sendLog)
    /\ filesystem = OneWrite(D).fs
    /\ Replies(sendLog) = Replies(OneWrite(WholePrefix(D)).sendLog)

\* C33 (sync framing is independent of WRTE boundaries): however the bytes
\* of a sequence of sub-messages are cut into WRTE packets, the stream has
\* sent the replies and the backend holds the files that one WRTE of the same
\* bytes leads to, and an incomplete sub-message has produced no reply.
C33_FramingIndependent == SameAsOneWrite(Delivered)

\* C33 holds of the byte strings in which nothing follows a QUIT
C33_FramingIndependentOpen ==
    ~StartsWith(Delivered, T_QUIT) => SameAsOneWrite(Delivered)

\* QUIT arrived in a WRTE of its own and the upload behind it in two more,
\* cut inside the header of DONE: the file of the upload does not exist
C33_QuitThenUploadSplit ==
    /\ Len(inLog) = 5
    /\ inLog[3].payload = SyncMsg(T_QUIT, <<>>)
    /\ Len(inLog[5].payload) = 5
    /\ Delivered \in FramingSequences
    /\ ~get_entry(filesystem, T_path_n, ROOT).ok
    /\ get_entry(OneWrite(Delivered).fs, T_path_n, ROOT).ok

-----------------------------------------------------------------------------
(* Logcat streams with the producer loop taken statement by statement      *)
(* The producer is at "top" before the test of its while loop, at "pull"    *)
(* between the test and next_log_lines, at "send" before self.send.         *)

LogcatIds == {1, 2}      \* the server ids of the streams of this session

\* "while not self._stop_event.is_set()": the loop ends, or its body begins
ProducerTest(rid) ==
    /\ rid \in DOMAIN streams
    /\ streams[rid].thread = "running"
    /\ streams[rid].pc = "top"
    /\ IF streams[rid].stop_event
       THEN streams' = [streams EXCEPT ![rid].thread = "exited"]
       ELSE /\ log_cursor < LOG_LINES_PER_CHUNK * MaxLogChunks
            /\ streams' = [streams EXCEPT ![rid].pc = "pull"]
    /\ UNCHANGED <<max_payload, streams_by_local, streams_by_remote, next_remote_id,
                   active, loop, loopExc, broken, filesystem, log_cursor, sent, sendLog,
                   inLog, codecVars, hostVars, otherVars>>

\* lines = self.device.next_log_lines(5); payload = "\n".join(lines) + "\n"
ProducerPull(rid) ==
    /\ rid \in DOMAIN streams
    /\ streams[rid].thread = "running"
    /\ streams[rid].pc = "pull"
    /\ streams' = [streams EXCEPT
           ![rid].pc = "send",
           ![rid].pending =
               JoinWith(next_log_lines(log_cursor, LOG_LINES_PER_CHUNK), <<LF>>)
                   \o <<LF>>]
    /\ log_cursor' = log_cursor + LOG_LINES_PER_CHUNK
    /\ UNCHANGED <<max_payload, streams_by_local, streams_by_remote, next_remote_id,
                   active, loop, loopExc, broken, filesystem, sent, sendLog, inLog,
                   codecVars, hostVars, otherVars>>

\* self.send(payload) inside try/except, then the sleep
ProducerSendStep(rid) == rid \in DOMAIN streams /\ LogcatSend(rid)

ProducerStep(rid) == ProducerTest(rid) \/ ProducerPull(rid) \/ ProducerSendStep(rid)

\* the peer opens a logcat stream
LogcatOpen == \E id \in PeerIds : Receive(Packet("OPEN", id, 0, T_logcat \o <<NUL>>))

\* the peer closes a stream
LogcatPeerClose == RecvClose

\* the peer writes to a stream: 0x03 when it is a logcat stream
LogcatPeerWrite == RecvWrite

LogcatTest == \E rid \in LogcatIds : ProducerTest(rid)
LogcatPullLines == \E rid \in LogcatIds : ProducerPull(rid)
LogcatSendLines == \E rid \in LogcatIds : ProducerSendStep(rid)

LogcatNext ==
    \/ LogcatOpen
    \/ LogcatPeerClose
    \/ LogcatPeerWrite
    \/ LogcatTest
    \/ LogcatPullLines
    \/ LogcatSendLines

\* the producer threads are scheduled: a thread that can take a step takes it
SpecLogcat ==
    /\ Init
    /\ [][LogcatNext]_vars
    /\ \A rid \in LogcatIds : WF_vars(ProducerStep(rid))

\* stream rid is a logcat stream that has been closed
LogcatClosed(rid) ==
    /\ rid \in DOMAIN streams
    /\ streams[rid].kind = "logcat"
    /\ streams[rid].closed

\* the producer thread of stream rid has ended
ProducerExited(rid) ==
    /\ rid \in DOMAIN streams
    /\ streams[rid].thread = "exited"

\* the producer of stream rid fetches lines from the backend in this step
PullsLines(rid) ==
    /\ rid \in DOMAIN streams
    /\ streams[rid].pc = "pull"
    /\ streams'[rid].pc = "send"

\* C34 (logcat producer release): once a logcat stream is closed, by a CLSE
\* of the peer or by a payload containing 0x03, its producer eventually
\* stops, and it fetches no chunk of lines from the backend any more.
C34_ProducerRelease ==
    /\ \A rid \in LogcatIds : LogcatClosed(rid) ~> ProducerExited(rid)
    /\ [][\A rid \in LogcatIds : LogcatClosed(rid) => ~PullsLines(rid)]_vars

\* the first half of C34 holds: the producer of a closed stream eventually
\* stops
C34_ProducerStops ==
    \A rid \in LogcatIds : LogcatClosed(rid) ~> ProducerExited(rid)

\* the producer of a closed stream fetches at most one more chunk: it
\* fetches none after it has fetched one
C34_OneMorePull ==
    [][\A rid \in LogcatIds :
          (LogcatClosed(rid) /\ PullsLines(rid)) =>
              /\ streams'[rid].stop_event
              /\ streams[rid].pending = <<>>]_vars

\* a stream was closed by 0x03 while its producer was between the loop test
\* and next_log_lines; the producer has since fetched lines and has stopped
C34_PulledAfterClose ==
    /\ Len(inLog) = 2
    /\ inLog[2].command = "WRTE" /\ inLog[2].payload = <<CTRL_C>>
    /\ LogcatClosed(1)
    /\ streams[1].thread = "exited"
    /\ log_cursor = LOG_LINES_PER_CHUNK
    /\ sendLog = <<>>

-----------------------------------------------------------------------------
(* Who modifies the stream tables                                          *)

\* this step is the transport reader handling one packet in run()
ReaderStep ==
    /\ loop = "running"
    /\ Len(inLog') = Len(inLog) + 1

TablesChange ==
    \/ streams_by_local' # streams_by_local
    \/ streams_by_remote' # streams_by_remote

\* C35 (single-writer stream table): streams_by_local and streams_by_remote
\* are modified only in steps of the transport reader; the steps of a logcat
\* producer thread leave both tables as they are.
C35_SingleWriter ==
    [][/\ TablesChange => ReaderStep
       /\ \A rid \in DOMAIN streams :
              (streams[rid].thread = "running" /\ streams'[rid] # streams[rid]
                   /\ inLog' = inLog)
                  => ~TablesChange]_vars

\* a producer has sent a chunk for a registered stream, and the stream is
\* still in both tables
C35_ProducerSentRegistered ==
    \E i \in 1..Len(sendLog) :
        /\ sendLog[i].cause = 0
        /\ sendLog[i].registered
        /\ sendLog[i].rid \in DOMAIN streams_by_remote
        /\ sendLog[i].lid \in DOMAIN streams_by_local
        /\ streams[sendLog[i].rid].thread = "running"

-----------------------------------------------------------------------------
(* SyncProtocol of the device server (src/server/sync_service.py)          *)

T_bad_request ==  \* 'bad request'
    <<98, 97, 100, 32, 114, 101, 113, 117, 101, 115, 116>>

T_bad_send_header ==  \* 'bad send header'
    <<98, 97, 100, 32, 115, 101, 110, 100, 32, 104, 101, 97, 100, 101, 114>>

T_unknown_request ==  \* 'unknown request'
    <<117, 110, 107, 110, 111, 119, 110, 32, 114, 101, 113, 117, 101, 115,
      116>>

MaxProtoOps == 4         \* requests given to handle() of one SyncProtocol

\* SyncProtocol._pack
_pack(ident, payload) == ident \o PackNat(Len(payload)) \o payload

\* int(mode_s) accepts a text of decimal digits
IsDecimal(text) ==
    /\ text # <<>>
    /\ \A i \in 1..Len(text) : text[i] \in 48..57

\* the SyncProtocol object, the file objects and the files, as one record
Proto ==
    [send_fp |-> send_fp, send_path |-> send_path, fileObjects |-> fileObjects,
     overlayFiles |-> overlayFiles, reply |-> <<>>]

\* the SEND branch of handle: rsplit(",", 1), int(mode_s), open(path, "wb")
handle_send(p, payload) ==
    LET k == LastIndexOf(payload, COMMA, Len(payload))
        path == SubSeq(payload, 1, k - 1)
        mode_s == SubSeq(payload, k + 1, Len(payload))
    IN  IF k = 0 \/ ~IsDecimal(mode_s)
        THEN [p EXCEPT !.reply = _pack(T_FAIL, T_bad_send_header)]
        ELSE [p EXCEPT
                 !.send_path = path,
                 !.fileObjects = Append(@, [path |-> path, closed |-> FALSE]),
                 !.send_fp = <<Len(p.fileObjects) + 1>>,
                 !.overlayFiles = Put(@, path, [data |-> <<>>, mtime |-> 0]),
                 !.reply = <<>>]

\* the DATA branch of handle: self._send_fp.write(payload)
handle_data(p, payload) ==
    IF p.send_fp = NoAttr
    THEN [p EXCEPT !.reply = _pack(T_FAIL, T_data_without_send)]
    ELSE LET path == p.fileObjects[p.send_fp[1]].path
         IN  [p EXCEPT !.overlayFiles[path].data = @ \o payload,
                       !.reply = <<>>]

\* the DONE branch of handle: with at least 4 bytes of payload the file
\* object is flushed, closed and deleted and the mtime is set; OKAY
handle_done(p, payload) ==
    IF p.send_fp = NoAttr
    THEN [p EXCEPT !.reply = _pack(T_FAIL, T_done_without_send)]
    ELSE IF Len(payload) >= 4
    THEN [p EXCEPT !.fileObjects[p.send_fp[1]].closed = TRUE,
                   !.send_fp = NoAttr,
                   !.overlayFiles[p.send_path].mtime = UnpackNat(payload, 0),
                   !.reply = _pack(T_OKAY, <<>>)]
    ELSE [p EXCEPT !.reply = _pack(T_OKAY, <<>>)]

\* SyncProtocol.handle for the requests of an upload
handle(p, data) ==
    IF Len(data) < 8 THEN [p EXCEPT !.reply = _pack(T_FAIL, T_bad_request)]
    ELSE LET ident == SubSeq(data, 1, 4)
             length == UnpackNat(data, 4)
             payload == SubSeq(data, 9, Min(8 + length, Len(data)))
         IN  IF ident = T_SEND THEN handle_send(p, payload)
             ELSE IF ident = T_DATA THEN handle_data(p, payload)
             ELSE IF ident = T_DONE THEN handle_done(p, payload)
             ELSE [p EXCEPT !.reply = _pack(T_FAIL, T_unknown_request)]

\* the mtime payload of a DONE: struct.pack("<I", 1)
MtimePayload == PackNat(1)

\* the requests the peer makes
ProtoRequests ==
    {SyncMsg(T_SEND, T_path_n \o <<COMMA>> \o T_mode_644),
     SyncMsg(T_SEND, T_path_p \o <<COMMA>> \o T_mode_644),
     SyncMsg(T_SEND, T_path_n),
     SyncMsg(T_DATA, T_ab),
     SyncMsg(T_DONE, <<>>),
     SyncMsg(T_DONE, MtimePayload),
     SyncMsg(T_JUNK, <<>>),
     T_DONE}

\* out = sync.handle(chunk)
ProtoHandle ==
    /\ Len(protoLog) < MaxProtoOps
    /\ \E data \in ProtoRequests :
          LET p == handle(Proto, data)
          IN  /\ send_fp' = p.send_fp
              /\ send_path' = p.send_path
              /\ fileObjects' = p.fileObjects
              /\ overlayFiles' = p.overlayFiles
              /\ protoLog' = Append(protoLog, [request |-> data, reply |-> p.reply])
    /\ UNCHANGED <<codecVars, transportVars, hostVars, handshakeVars, writerVars>>

ProtoInit ==
    /\ ProtocolIdle
    /\ HandshakeIdle
    /\ WriterIdle
    /\ CodecIdle
    /\ HostIdle
    /\ TransportInit(EmptyFs)

ProtoNext == ProtoHandle

SpecProto == ProtoInit /\ [][ProtoNext]_vars

\* the identifier of request i, and whether it is a SEND that was accepted
ProtoIdent(log, i) == SubSeq(log[i].request, 1, 4)

AcceptedSend(log, i) ==
    /\ Len(log[i].request) >= 8
    /\ ProtoIdent(log, i) = T_SEND
    /\ log[i].reply = <<>>

IsDone(log, i) == Len(log[i].request) >= 8 /\ ProtoIdent(log, i) = T_DONE

\* request d of the log follows an accepted SEND, with no DONE in between
FollowsSend(log, d) ==
    \E s \in 1..(d - 1) :
        /\ AcceptedSend(log, s)
        /\ \A j \in (s + 1)..(d - 1) : ~IsDone(log, j)

\* request n of the log comes after a DONE that followed a SEND, with no
\* SEND accepted since that DONE
AfterDone(log, n) ==
    \E d \in 1..(n - 1) :
        /\ IsDone(log, d)
        /\ FollowsSend(log, d)
        /\ \A j \in (d + 1)..(n - 1) : ~AcceptedSend(log, j)

\* the step handles a DONE that follows a SEND
DoneAfterSend ==
    /\ Len(protoLog') = Len(protoLog) + 1
    /\ IsDone(protoLog', Len(protoLog'))
    /\ FollowsSend(protoLog', Len(protoLog'))

\* the step handles a DATA after a DONE that followed a SEND, with no new SEND
DataAfterDone ==
    /\ Len(protoLog') = Len(protoLog) + 1
    /\ Len(protoLog'[Len(protoLog')].request) >= 8
    /\ ProtoIdent(protoLog', Len(protoLog')) = T_DATA
    /\ AfterDone(protoLog', Len(protoLog'))

\* the file object of the SEND is closed and the handle is gone
UploadOver ==
    /\ send_fp # NoAttr
    /\ fileObjects'[send_fp[1]].closed
    /\ send_fp' = NoAttr

\* the DATA is answered with FAIL and no file changes

DataRefused ==
    /\ protoLog'[Len(protoLog')].reply = _pack(T_FAIL, T_data_without_send)
    /\ overlayFiles' = overlayFiles

\* C36 (DONE always ends the upload): a DONE that follows a SEND, with or
\* without the 4-byte mtime, releases the open file object, and a DATA that
\* comes after it without a new SEND is answered with FAIL and is not
\* appended to the file.
C36_DoneEndsUpload ==
    [][/\ DoneAfterSend => UploadOver
       /\ DataAfterDone => DataRefused]_vars

\* the same for the uploads whose DONE requests all carry the mtime
NoShortDone(log) ==
    \A i \in 1..Len(log) : IsDone(log, i) => Len(log[i].request) >= 12

C36_DoneWithMtimeEndsUpload ==
    [][NoShortDone(protoLog') =>
          /\ DoneAfterSend => UploadOver
          /\ DataAfterDone => DataRefused]_vars

\* SEND /n, DATA ab, DONE without mtime, DATA ab: the second DATA is
\* appended to /n and gets no reply
C36_DataAppendedAfterDone ==
    /\ Len(protoLog) = 4
    /\ protoLog[1].request = SyncMsg(T_SEND, T_path_n \o <<COMMA>> \o T_mode_644)
    /\ protoLog[2].request = SyncMsg(T_DATA, T_ab)
    /\ protoLog[3].request = SyncMsg(T_DONE, <<>>)
    /\ protoLog[3].reply = _pack(T_OKAY, <<>>)
    /\ protoLog[4].request = SyncMsg(T_DATA, T_ab)
    /\ protoLog[4].reply = <<>>
    /\ overlayFiles[T_path_n].data = T_ab \o T_ab
    /\ send_fp # NoAttr

-----------------------------------------------------------------------------
(* The two stream tables against each other                                *)

\* the stream objects a table holds
TableObjects(table) == {table[k] : k \in DOMAIN table}

TablesInBijection ==
    /\ TableObjects(streams_by_local) = TableObjects(streams_by_remote)
    /\ \A k \in DOMAIN streams_by_local : streams[streams_by_local[k]].local_id = k
    /\ \A k \in DOMAIN streams_by_remote : streams[streams_by_remote[k]].remote_id = k

\* C37 (stream tables stay in bijection): in every reachable state of the
\* session streams_by_local and streams_by_remote hold the same stream
\* objects, each under its own peer id and its own server id, so that no
\* stream is reachable through one table only.
C37_TablesInBijection == TablesInBijection

\* every step other than an OPEN for a peer id that is bound keeps the tables
\* in bijection
C37_BijectionKept ==
    [][(TablesInBijection /\ ~DuplicateOpenStep)
          => TablesInBijection']_vars

\* a stream is in streams_by_remote and in no entry of streams_by_local
C37_RemoteOnly ==
    \E rid \in DOMAIN streams_by_remote :
        /\ rid \notin TableObjects(streams_by_local)
        /\ streams[rid].local_id \in DOMAIN streams_by_local
        /\ ~streams[rid].closed

-----------------------------------------------------------------------------
(* Closing a logcat stream while its producer writes packet by packet      *)

MaxCloseOps == 2         \* inbound packets run() handles in this session

\* the server id of the logcat stream of the session
LogcatStreamId == CHOOSE rid \in DOMAIN streams : streams[rid].kind = "logcat"

\* the packets the peer sends: CLSE for the logcat stream, 0x03 written to
\* it, a command line written to the shell stream
ClosePackets ==
    {Packet("CLSE", SegmentLogcatPeerId, LogcatStreamId, <<>>),
     Packet("WRTE", SegmentLogcatPeerId, LogcatStreamId, <<CTRL_C>>),
     Packet("WRTE", SegmentPeerId, streams_by_local[SegmentPeerId],
            T_echo_hi \o <<LF>>)}

\* run() reads one of these packets and handles it
CloseReaderBegin ==
    /\ loop = "running"
    /\ active
    /\ Len(inLog) < Len(SegmentPrefix(0)) + MaxCloseOps
    /\ \E packet \in ClosePackets :
          /\ ThreadBegin("reader", Dispatch(Cur(Len(inLog) + 1), packet))
          /\ inLog' = Append(inLog, LogEntry(Cur(0), packet))
    /\ UNCHANGED <<loop, loopExc, broken, wire, codecVars, hostVars, handshakeVars,
                   protocolVars>>

CloseReaderEmit == ThreadEmit("reader")

\* the producer tests its stop event and pulls its next lines
CloseProducerPull ==
    /\ writers["producer"].queue = <<>>
    /\ LogcatPull(LogcatStreamId)

\* the producer calls self.send(payload): the closed flag and the table are
\* tested here, the packets are written afterwards; StreamClosed ends the
\* thread
CloseProducerBegin ==
    LET rid == LogcatStreamId
    IN  /\ streams[rid].thread = "running"
        /\ streams[rid].pc = "send"
        /\ LET t == send(Cur(0), rid, streams[rid].pending)
               t1 == [t EXCEPT !.streams[rid].pending = <<>>]
           IN  IF t.raised # "none"
               THEN ThreadBegin("producer", [t1 EXCEPT !.streams[rid].thread = "exited"])
               ELSE ThreadBegin("producer", [t1 EXCEPT !.streams[rid].pc = "top"])
        /\ UNCHANGED <<loop, loopExc, broken, inLog, wire, codecVars, hostVars,
                       handshakeVars, protocolVars>>

CloseProducerEmit == ThreadEmit("producer")

CloseNext ==
    \/ CloseReaderBegin
    \/ CloseReaderEmit
    \/ CloseProducerPull
    \/ CloseProducerBegin
    \/ CloseProducerEmit

SpecClose == SegmentInit /\ [][CloseNext]_vars

\* C38 (no data after close): once a CLSE for a stream is on the connection,
\* no WRTE for that stream follows it, however the reader and the producer
\* of the stream interleave.
C38_NoDataAfterClose ==
    \A i, j \in DOMAIN sent :
        (/\ i < j
         /\ sent[i].command = "CLSE"
         /\ sent[j].command = "WRTE")
            => sent[j].arg0 # sent[i].arg0

\* the CLSE of the logcat stream is on the connection and a chunk of the
\* producer follows it
C38_ChunkBehindClose ==
    \E i, j \in DOMAIN sent :
        /\ i < j
        /\ sent[i].command = "CLSE" /\ sent[i].arg0 = LogcatStreamId
        /\ sent[j].command = "WRTE" /\ sent[j].arg0 = LogcatStreamId
        /\ sent[j].cause = 0
        /\ streams[LogcatStreamId].closed

-----------------------------------------------------------------------------
(* The CLSE packets of one stream                                          *)

\* the positions in `sent` of the CLSE packets the server wrote for server id rid
ClosesOf(rid) == {i \in DOMAIN sent : sent[i].command = "CLSE" /\ sent[i].arg0 = rid}

\* C39 (at most one CLSE per stream): for every stream that was opened the
\* server writes at most one CLSE, whatever the order of the closes by the
\* server and the CLSE packets of the peer.
C39_AtMostOneClose ==
    \A rid \in DOMAIN streams : Cardinality(ClosesOf(rid)) <= 1

\* a stream the server closed by itself, whose peer id the peer then closes:
\* one CLSE was written, by the handler of the earlier packet
C39_PeerCloseAfterServerClose ==
    /\ Len(inLog) = MaxInbound
    /\ inLog[Len(inLog)].command = "CLSE"
    /\ \E rid \in DOMAIN streams :
          /\ streams[rid].closed
          /\ streams[rid].local_id = inLog[Len(inLog)].arg0
          /\ \E i \in ClosesOf(rid) :
                /\ sent[i].cause = Len(inLog) - 1
                /\ inLog[sent[i].cause].command = "WRTE"
          /\ Cardinality(ClosesOf(rid)) = 1

-----------------------------------------------------------------------------
(* When an upload reaches the file system                                  *)

\* this step handed one sub-message with this tag to the sync stream rid
SubMsgStep(rid, tag) ==
    /\ inLog' # inLog
    /\ SubMsgAt(inLog', Len(inLog) + 1, rid, tag)

\* C40 (upload commits only at DONE): a SEND or a DATA written to a sync
\* stream leaves the file system of the device as it is; the file system
\* changes only in the step that handles a DONE while a SEND is in progress.
C40_CommitOnlyAtDone ==
    [][\A rid \in DOMAIN streams :
          /\ (SubMsgStep(rid, T_SEND) \/ SubMsgStep(rid, T_DATA))
                => filesystem' = filesystem
          /\ (streams[rid].kind = "sync" /\ filesystem' # filesystem)
                => /\ SubMsgStep(rid, T_DONE)
                   /\ SendInProgress(inLog, rid)]_vars

\* as long as no DONE has been written to the stream, the file system is the
\* one the device started with: an upload given up before its DONE (QUIT, a
\* new SEND) leaves no trace
C40_AbandonedLeavesNoTrace ==
    (\A i \in DOMAIN inLog : \A rid \in DOMAIN streams : ~SubMsgAt(inLog, i, rid, T_DONE))
        => filesystem = create_from_config(EmptyFs, SyncConfig)

\* SEND "/n,644", DATA "ab", then QUIT: the stream is closed with the data
\* still in its buffer and the file system is the initial one
C40_UploadAbandoned ==
    /\ Len(inLog) = 5
    /\ IsSubMsg(inLog[3].payload, T_SEND)
    /\ SubMsgBody(inLog[3].payload) = T_path_n \o <<COMMA>> \o T_mode_644
    /\ IsSubMsg(inLog[4].payload, T_DATA)
    /\ IsSubMsg(inLog[5].payload, T_QUIT)
    /\ \E rid \in DOMAIN streams :
          /\ streams[rid].closed
          /\ streams[rid].current_path = T_path_n
          /\ streams[rid].current_data = SubMsgBody(inLog[4].payload)
    /\ filesystem = create_from_config(EmptyFs, SyncConfig)

=============================================================================
